---- MODULE Spec2Model ----
(***************************************************************************)
(* Verification model of HLS-TRANSCODER.                                   *)
(*                                                                         *)
(* Part 1: ParallelExecutor (hls_transcoder/executor/parallel.py).         *)
(*   The executor runs on one asyncio event loop, so every action below    *)
(*   is the code between two suspension points of a coroutine.  The        *)
(*   executor-level progress callback is a synchronous call into foreign   *)
(*   code: the state it observes is a state of the model, and no other     *)
(*   coroutine moves while it runs (in_callback).                          *)
(* Part 2: ErrorRecovery.execute_with_recovery (hls_transcoder/utils/      *)
(*   errors.py).                                                           *)
(* Part 3: AsyncFFmpegProcess, the subprocess driver (hls_transcoder/      *)
(*   executor/subprocess.py): one run() of one driver object, the child    *)
(*   process it spawns, and terminate() calls made by other coroutines.    *)
(* Part 4: HardwareDetector.detect and clear_cache (hls_transcoder/        *)
(*   hardware/detector.py): the memo of the detection result, with         *)
(*   detect() calls that may overlap on the event loop.                    *)
(* Part 5: TranscodingPlanner (hls_transcoder/planner/strategy.py): the    *)
(*   quality ladder and the tasks of a plan with their output files.       *)
(* Part 6: SpriteGenerator.generate (hls_transcoder/sprites/generator.py). *)
(* Part 7: PlaylistGenerator.generate_master_playlist (hls_transcoder/     *)
(*   playlist/generator.py).                                               *)
(* Part 8: the transcode command (hls_transcoder/cli/main.py) and the      *)
(*   exit code of the process.                                             *)
(* Part 9: ExecutionPlanner.create_execution_strategy (hls_transcoder/     *)
(*   planner/strategy.py) and a ParallelExecutor built with its strategy.  *)
(***************************************************************************)
EXTENDS Integers, Sequences, FiniteSets, TLC

\* ------------------------------------------------------------------ bounds
MaxVideo == 2
MaxAudio == 2
MaxSubtitle == 2
MaxTasks == 3
MaxConcurrency == 2
MaxRetriesBound == 3
MaxRetryDelayBound == 3
MaxTimeoutBound == 1
MaxLines == 3
MaxTerminateCalls == 2
MaxDetectCalls == 3
MaxClearCalls == 1
MaxOffered == 3
MaxProfile == 2
MaxStreams == 2
MaxDuration == 5
MaxInterval == 2
MaxGrid == 2
MaxTracks == 2
MaxFailed == 2
MaxParallelTasks == 2
MaxInstances == 2

VARIABLES
    \* ParallelExecutor
    strategy,          \* ExecutionStrategy: the three concurrencies, sprite_separate
    tasks,             \* the tasks handed to execute_tasks (video, audio, subtitle, sprite)
    progress_callback, \* TRUE when a progress callback was passed
    status,            \* task.status
    pc,                \* position of each task's coroutine
    semaphore,         \* value of _video_semaphore, _audio_semaphore, _subtitle_semaphore
    results,           \* self._results
    cancelled,         \* self._cancelled
    exec_pc,           \* position of execute_tasks
    summary,           \* the ExecutionSummary execute_tasks returned
    in_callback,       \* the task whose _run_task is inside progress_callback
    worker,            \* per task: invocations and outcome of executor_func
    permits,           \* per task: permits acquired and released
    \* ErrorRecovery
    config,            \* RecoveryConfig
    fallback_operation,\* TRUE when a fallback operation was passed
    cleanup_func,      \* TRUE when a cleanup function was passed
    rec_pc,            \* position of execute_with_recovery
    attempt,           \* the loop variable of the retry loop
    attempts,          \* the list of RecoveryAttempt
    calls,             \* invocations of operation, fallback_operation, cleanup_func,
                       \* and operations cancelled by the timeout
    outcomes,          \* outcome of each invocation of operation, in order
    delays,            \* the delays slept between attempts
    recovery_result,   \* the RecoveryResult returned
    \* AsyncFFmpegProcess
    timeout,           \* self.timeout
    driver_progress_callback, \* TRUE when a progress callback was passed
    process,           \* self._process: "none" or "started"
    returncode,        \* self._process.returncode
    signals,           \* the signals sent to the child, in order
    run_pc,            \* position of run()
    raising,           \* the exception run() is handling
    run_result,        \* how run() ended
    term_pc,           \* position of the terminate() call of run() and of a caller
    terminate_log,     \* state of the child at each terminate() call of a caller
    duration,          \* self._duration
    stderr_lines,      \* the number of lines appended to stderr_lines
    callbacks,         \* the calls of progress_callback
    \* HardwareDetector
    ffmpeg_installed,  \* TRUE when shutil.which("ffmpeg") finds a binary
    ffmpeg_encoders,   \* the video encoder names "ffmpeg -encoders" lists
    det_inputs,        \* the arguments callers pass to detect()
    cache,             \* self._cache
    det_pc,            \* position of each detect() call
    det_args,          \* arguments of each detect() call
    det_log,           \* starts and ends of detect() calls, clear_cache() calls
    detections,        \* HardwareInfo objects created so far
    clears,            \* clear_cache() calls so far
    \* ExecutionPlanner
    media_info,        \* the streams of the source: video, audio, subtitle
    hardware_info,     \* the HardwareInfo the planner was given
    profile,           \* the variants of the selected profile, quality labels
    sprites_enabled,   \* config.sprites.enabled
    video_qualities,   \* the quality ladder of the last create_plan()
    plan,              \* the TaskPlan of the last create_plan()
    \* SpriteGenerator
    sprite_config,     \* the SpriteConfig of generate(): interval, columns, rows
    sprite_duration,   \* self.duration, in seconds
    sprite_pc,         \* position of generate()
    temp_dir,          \* output_dir/temp_thumbnails: whether it exists, its thumb_*.jpg
    extractor_alive,   \* the ffmpeg child of the extraction is still running
    sprite_paths,      \* the sprite sheets created so far
    vtt_cues,          \* the cues of sprite.vtt, empty until it is written
    sprite_error,      \* the phase in which generate() failed
    \* PlaylistGenerator
    video_variants,    \* the video variants passed to generate_master_playlist
    audio_tracks,      \* the audio tracks passed to it
    subtitle_tracks,   \* the subtitle tracks passed to it
    master_playlist,   \* the entries of master.m3u8, once written
    playlist_error,    \* the exception generate_master_playlist raised
    \* the transcode command of the CLI
    yes_flag,          \* --yes: no confirmation prompt
    cli_pc,            \* position of the transcode command
    exit_code,         \* the exit code of the process, None while it runs
    cli_end,           \* how _transcode_async ended: returned, declined, an exception
    cli_failed_tasks,  \* summary.failed_tasks of the execution
    playlists,         \* whether the playlists were generated
    validation         \* the validation result: is_valid, or None

execVars == <<strategy, tasks, progress_callback, status, pc, semaphore, results,
              cancelled, exec_pc, summary, in_callback, worker, permits>>
recVars == <<config, fallback_operation, cleanup_func, rec_pc, attempt, attempts,
             calls, outcomes, delays, recovery_result>>
drvVars == <<timeout, driver_progress_callback, process, returncode, signals, run_pc,
             raising, run_result, term_pc, terminate_log, duration, stderr_lines,
             callbacks>>
detVars == <<ffmpeg_installed, ffmpeg_encoders, det_inputs, cache, det_pc, det_args,
             det_log, detections, clears>>
planVars == <<media_info, hardware_info, profile, sprites_enabled, video_qualities,
              plan>>
spriteVars == <<sprite_config, sprite_duration, sprite_pc, temp_dir, extractor_alive,
                sprite_paths, vtt_cues, sprite_error>>
playlistVars == <<video_variants, audio_tracks, subtitle_tracks, master_playlist,
                  playlist_error>>
cliVars == <<yes_flag, cli_pc, exit_code, cli_end, cli_failed_tasks, playlists,
             validation>>
vars == <<execVars, recVars, drvVars, detVars, planVars, spriteVars, playlistVars, cliVars>>

\* the variables an action of one component leaves alone: those of the others
notExecVars == <<recVars, drvVars, detVars, planVars, spriteVars, playlistVars, cliVars>>
notRecVars == <<execVars, drvVars, detVars, planVars, spriteVars, playlistVars, cliVars>>
notDrvVars == <<execVars, recVars, detVars, planVars, spriteVars, playlistVars, cliVars>>
notDetVars == <<execVars, recVars, drvVars, planVars, spriteVars, playlistVars, cliVars>>
notPlanVars == <<execVars, recVars, drvVars, detVars, spriteVars, playlistVars, cliVars>>
notSpriteVars == <<execVars, recVars, drvVars, detVars, planVars, playlistVars, cliVars>>
notPlaylistVars == <<execVars, recVars, drvVars, detVars, planVars, spriteVars, cliVars>>
notCliVars == <<execVars, recVars, drvVars, detVars, planVars, spriteVars, playlistVars>>

NoTask == <<"none", 0>>
Min(a, b) == IF a < b THEN a ELSE b
NoValue == [none |-> TRUE]

\* ------------------------------------------------------------ TaskStatus
PENDING == "pending"
RUNNING == "running"
COMPLETED == "completed"
FAILED == "failed"
CANCELLED == "cancelled"
TaskStatus == {PENDING, RUNNING, COMPLETED, FAILED, CANCELLED}
Terminal == {COMPLETED, FAILED, CANCELLED}

\* ------------------------------------------------------------ tasks
SemaphoreClasses == {"video", "audio", "subtitle"}
TaskType(t) == t[1]
VideoTasks == {t \in tasks : TaskType(t) = "video"}
AudioTasks == {t \in tasks : TaskType(t) = "audio"}
SubtitleTasks == {t \in tasks : TaskType(t) = "subtitle"}
SpriteTasks == {t \in tasks : TaskType(t) = "sprite"}

\* total_tasks of execute_tasks
TotalTasks == Cardinality(VideoTasks) + Cardinality(AudioTasks)
              + Cardinality(SubtitleTasks) + Cardinality(SpriteTasks)

\* the coroutines execute_tasks hands to asyncio.gather
GatheredTasks ==
    VideoTasks \cup AudioTasks \cup SubtitleTasks
    \cup (IF strategy.sprite_separate THEN {} ELSE SpriteTasks)

\* the sprite task execute_tasks awaits after the gather point
SeparateSprite == IF strategy.sprite_separate THEN SpriteTasks ELSE {}

\* ExecutionStrategy.__post_init__ clamps every concurrency to at least 1
Clamp(n) == IF n < 1 THEN 1 ELSE n

\* capacity of the semaphore of a class, as ParallelExecutor.__init__ sets it
Capacity(c) ==
    CASE c = "video" -> strategy.video_concurrency
      [] c = "audio" -> strategy.audio_concurrency
      [] c = "subtitle" -> strategy.subtitle_concurrency

UsesSemaphore(t) == TaskType(t) \in SemaphoreClasses

\* ------------------------------------------------------------ semaphores
LockedNever(c) == FALSE

\* asyncio.Semaphore.locked(): no permit can be taken right now
Locked(c) == semaphore[c] = 0

\* guard of "async with self._<class>_semaphore" for task t; the sprite task
\* takes no semaphore (_execute_sprite_task)
CanEnter(t) == UsesSemaphore(t) => ~Locked(TaskType(t))

\* __aenter__ of "async with": one permit taken
Acquire(sem, t) ==
    IF UsesSemaphore(t) THEN [sem EXCEPT ![TaskType(t)] = @ - 1] ELSE sem

ReleasesOnSuccess(how) == how = "success"

\* __aexit__ of "async with" runs on every way out of the block: a returned
\* result ("success", "failure"), an exception of the progress callback
\* ("raised") and a CancelledError ("cancelled")
ReleasesOn(how) == TRUE

Release(sem, t, how) ==
    IF UsesSemaphore(t) /\ ReleasesOn(how)
    THEN [sem EXCEPT ![TaskType(t)] = @ + 1] ELSE sem

PermitTaken(p, t) ==
    IF UsesSemaphore(t) THEN [p EXCEPT ![t].acquired = @ + 1] ELSE p

PermitGiven(p, t, how) ==
    IF UsesSemaphore(t) /\ ReleasesOn(how)
    THEN [p EXCEPT ![t].released = @ + 1] ELSE p

\* ------------------------------------------------------------ results
ExecutionResult(t, ok) == [task |-> t, success |-> ok]

CountSuccess(res, ok) == Cardinality({i \in 1..Len(res) : res[i].success = ok})

MakeSummaryByStatus(total, res) ==
    [total_tasks |-> total,
     completed_tasks |-> CountSuccess(res, TRUE),
     failed_tasks |-> CountSuccess(res, FALSE),
     cancelled_tasks |-> Cardinality({t \in tasks : status[t] = CANCELLED}),
     results |-> res]

\* the summary execute_tasks computes from self._results
MakeSummary(total, res) ==
    [total_tasks |-> total,
     completed_tasks |-> CountSuccess(res, TRUE),
     failed_tasks |-> CountSuccess(res, FALSE),
     cancelled_tasks |-> total - Len(res),
     results |-> res]

\* self._active_tasks: created empty in __init__ and never added to
ActiveTasks == {}

RunTaskIgnoresCancelled == FALSE

\* "if self._cancelled" at the head of _run_task
RunTaskSeesCancelled == cancelled

CancelledBranchAppends(res, t) == Append(res, ExecutionResult(t, FALSE))

\* self._results after the cancelled branch of _run_task: the failure result
\* is returned to the caller and not appended
CancelledBranchResults(res, t) == res

\* ------------------------------------------------------------ Init
TaskSets ==
    {   {<<"video", i>> : i \in 1..n[1]} \cup {<<"audio", i>> : i \in 1..n[2]}
        \cup {<<"subtitle", i>> : i \in 1..n[3]} \cup {<<"sprite", i>> : i \in 1..n[4]}
      : n \in {m \in (0..MaxVideo) \X (0..MaxAudio) \X (0..MaxSubtitle) \X (0..1) :
                 m[1] + m[2] + m[3] + m[4] <= MaxTasks} }

\* the strategies an executor is built with: concurrencies as
\* ExecutionStrategy.__post_init__ leaves them, not above the number of
\* tasks of the class, and sprite_separate only with a sprite task
StrategiesFor(ts) ==
    LET count(c) == Cardinality({t \in ts : TaskType(t) = c})
        range(c) == {Clamp(n) : n \in 0..Min(MaxConcurrency, count(c))} IN
    [video_concurrency : range("video"),
     audio_concurrency : range("audio"),
     subtitle_concurrency : range("subtitle"),
     sprite_separate : IF count("sprite") > 0 THEN BOOLEAN ELSE {FALSE}]

ExecInit ==
    /\ tasks \in TaskSets
    /\ strategy \in StrategiesFor(tasks)
    /\ progress_callback \in BOOLEAN
    /\ status = [t \in tasks |-> PENDING]
    /\ pc = [t \in tasks |-> "created"]
    /\ semaphore = [c \in SemaphoreClasses |-> Capacity(c)]
    /\ results = <<>>
    /\ cancelled = FALSE
    /\ exec_pc = "idle"
    /\ summary = NoValue
    /\ in_callback = NoTask
    /\ worker = [t \in tasks |-> [calls |-> 0, outcome |-> "none"]]
    /\ permits = [t \in tasks |-> [acquired |-> 0, released |-> 0]]

\* ------------------------------------------------------------ execute_tasks
\* execute_tasks up to "await asyncio.gather(...)": the coroutines of the
\* video, audio and subtitle tasks (and of the sprite task unless
\* sprite_separate) are created and handed to gather
ExecuteTasks ==
    /\ exec_pc = "idle"
    /\ exec_pc' = "gather"
    /\ pc' = [t \in tasks |-> IF t \in GatheredTasks THEN "waiting" ELSE "created"]
    /\ UNCHANGED <<strategy, tasks, progress_callback, status, semaphore, results,
                   cancelled, summary, in_callback, worker, permits>>
    /\ UNCHANGED notExecVars

\* how execute_tasks goes on when the awaited sprite coroutine, or the last
\* statement before the summary, has ended with "how"
ExecuteTasksEnds(how, res) ==
    IF how = "raised"
    THEN exec_pc' = "raised" /\ summary' = summary
    ELSE exec_pc' = "returned" /\ summary' = MakeSummary(TotalTasks, res)

\* the way out of _run_task and of the "async with" around it
Finish(t, how) ==
    /\ pc' = [pc EXCEPT ![t] = "done"]
    /\ semaphore' = Release(semaphore, t, how)
    /\ permits' = PermitGiven(permits, t, how)
    /\ in_callback' = NoTask
    /\ IF t \in SeparateSprite
       THEN ExecuteTasksEnds(how, results')
       ELSE UNCHANGED <<exec_pc, summary>>

\* _execute_<class>_task of a gathered task from the acquire of its semaphore
\* to the first suspension of _run_task: either the cancelled branch, which
\* returns a failure result, or RUNNING and the call of the worker
Dispatch(t) ==
    /\ exec_pc = "gather"
    /\ t \in GatheredTasks
    /\ pc[t] = "waiting"
    /\ in_callback = NoTask
    /\ CanEnter(t)
    /\ IF RunTaskSeesCancelled
       THEN /\ status' = [status EXCEPT ![t] = CANCELLED]
            /\ pc' = [pc EXCEPT ![t] = "done"]
            /\ results' = CancelledBranchResults(results, t)
            /\ semaphore' = Release(Acquire(semaphore, t), t, "failure")
            /\ permits' = PermitGiven(PermitTaken(permits, t), t, "failure")
            /\ UNCHANGED worker
       ELSE /\ status' = [status EXCEPT ![t] = RUNNING]
            /\ pc' = [pc EXCEPT ![t] = "worker"]
            /\ semaphore' = Acquire(semaphore, t)
            /\ permits' = PermitTaken(permits, t)
            /\ worker' = [worker EXCEPT ![t].calls = @ + 1]
            /\ UNCHANGED results
    /\ UNCHANGED <<strategy, tasks, progress_callback, cancelled, exec_pc,
                   summary, in_callback>>
    /\ UNCHANGED notExecVars

GatherDoneAtOnce == TRUE

\* asyncio.gather(..., return_exceptions=True) has returned
GatherDone == \A t \in GatheredTasks : pc[t] = "done"

\* execute_tasks after the gather point: without a separate sprite task the
\* summary; with one, "await self._execute_sprite_task(...)" up to the first
\* suspension of its _run_task
GatherReturns ==
    /\ exec_pc = "gather"
    /\ in_callback = NoTask
    /\ GatherDone
    /\ IF SeparateSprite = {}
       THEN /\ ExecuteTasksEnds("success", results)
            /\ UNCHANGED <<status, pc, worker, results>>
       ELSE LET t == CHOOSE s \in SeparateSprite : TRUE IN
            IF RunTaskSeesCancelled
            THEN /\ status' = [status EXCEPT ![t] = CANCELLED]
                 /\ pc' = [pc EXCEPT ![t] = "done"]
                      /\ results' = CancelledBranchResults(results, t)
                 /\ ExecuteTasksEnds("failure", results')
                 /\ UNCHANGED worker
            ELSE /\ status' = [status EXCEPT ![t] = RUNNING]
                 /\ pc' = [pc EXCEPT ![t] = "worker"]
                 /\ worker' = [worker EXCEPT ![t].calls = @ + 1]
                 /\ exec_pc' = "sprite"
                 /\ UNCHANGED <<summary, results>>
    /\ UNCHANGED <<strategy, tasks, progress_callback, semaphore, cancelled,
                   in_callback, permits>>
    /\ UNCHANGED notExecVars

\* "output_path = await executor_func(task)" returns: the try branch of
\* _run_task up to the call of progress_callback
WorkerSucceeds(t) ==
    /\ exec_pc \in {"gather", "sprite"}
    /\ pc[t] = "worker"
    /\ in_callback = NoTask
    /\ status' = [status EXCEPT ![t] = COMPLETED]
    /\ results' = Append(results, ExecutionResult(t, TRUE))
    /\ worker' = [worker EXCEPT ![t].outcome = "success"]
    /\ IF progress_callback
       THEN /\ pc' = [pc EXCEPT ![t] = "callback_try"]
            /\ in_callback' = t
            /\ UNCHANGED <<semaphore, permits, exec_pc, summary>>
       ELSE Finish(t, "success")
    /\ UNCHANGED <<strategy, tasks, progress_callback, cancelled>>
    /\ UNCHANGED notExecVars

\* "await executor_func(task)" raises: the except branch of _run_task up to
\* the call of progress_callback
WorkerFails(t) ==
    /\ exec_pc \in {"gather", "sprite"}
    /\ pc[t] = "worker"
    /\ in_callback = NoTask
    /\ status' = [status EXCEPT ![t] = FAILED]
    /\ results' = Append(results, ExecutionResult(t, FALSE))
    /\ worker' = [worker EXCEPT ![t].outcome = "error"]
    /\ IF progress_callback
       THEN /\ pc' = [pc EXCEPT ![t] = "callback_except"]
            /\ in_callback' = t
            /\ UNCHANGED <<semaphore, permits, exec_pc, summary>>
       ELSE Finish(t, "failure")
    /\ UNCHANGED <<strategy, tasks, progress_callback, cancelled>>
    /\ UNCHANGED notExecVars

\* progress_callback(completed, total_tasks) called in the try branch: when
\* it returns, _run_task returns the success result; when it raises, the
\* "except Exception" of the same try catches it
CallbackInTry(t, raises) ==
    /\ pc[t] = "callback_try"
    /\ in_callback = t
    /\ IF raises
       THEN /\ status' = [status EXCEPT ![t] = FAILED]
            /\ results' = Append(results, ExecutionResult(t, FALSE))
            /\ pc' = [pc EXCEPT ![t] = "callback_except"]
            /\ UNCHANGED <<semaphore, permits, exec_pc, summary, in_callback>>
       ELSE /\ UNCHANGED <<status, results>>
            /\ Finish(t, "success")
    /\ UNCHANGED <<strategy, tasks, progress_callback, cancelled, worker>>
    /\ UNCHANGED notExecVars

\* progress_callback(completed, total_tasks) called in the except branch:
\* when it raises, the exception leaves _run_task
CallbackInExcept(t, raises) ==
    /\ pc[t] = "callback_except"
    /\ in_callback = t
    /\ UNCHANGED <<status, results>>
    /\ Finish(t, IF raises THEN "raised" ELSE "failure")
    /\ UNCHANGED <<strategy, tasks, progress_callback, cancelled, worker>>
    /\ UNCHANGED notExecVars

\* cancel(): sets the flag and cancels the asyncio tasks of _active_tasks; a
\* cancelled coroutine leaves its await with CancelledError, which "except
\* Exception" does not catch
Cancel ==
    /\ exec_pc \in {"idle", "gather", "sprite"}
    /\ in_callback = NoTask
    /\ cancelled' = TRUE
    /\ LET hit == {t \in ActiveTasks : pc[t] \in {"waiting", "worker"}}
           held == {t \in hit : pc[t] = "worker"} IN
       /\ pc' = [t \in tasks |-> IF t \in hit THEN "done" ELSE pc[t]]
       /\ semaphore' = [c \in SemaphoreClasses |->
              semaphore[c] + Cardinality({t \in held : TaskType(t) = c})]
       /\ permits' = [t \in tasks |->
              IF t \in held /\ UsesSemaphore(t)
              THEN [permits[t] EXCEPT !.released = @ + 1] ELSE permits[t]]
    /\ UNCHANGED <<strategy, tasks, progress_callback, status, results, exec_pc,
                   summary, in_callback, worker>>
    /\ UNCHANGED notExecVars

Next ==
    \/ ExecuteTasks
    \/ GatherReturns
    \/ Cancel
    \/ \E t \in tasks : Dispatch(t)
    \/ \E t \in tasks : WorkerSucceeds(t)
    \/ \E t \in tasks : WorkerFails(t)
    \/ \E t \in tasks, raises \in BOOLEAN : CallbackInTry(t, raises)
    \/ \E t \in tasks, raises \in BOOLEAN : CallbackInExcept(t, raises)

\* ==================================================================
\* ErrorRecovery.execute_with_recovery
\* ==================================================================
RETRY == "retry"
FALLBACK == "fallback"
NoStrategy == "none"

\* RecoveryConfig defaults
RetryDelay == 1
BackoffMultiplier == 2

RECURSIVE Power(_, _)
Power(b, e) == IF e = 0 THEN 1 ELSE b * Power(b, e - 1)

\* _calculate_retry_delay(attempt)
CalculateRetryDelay(a) ==
    IF ~config.exponential_backoff
    THEN config.retry_delay
    ELSE Min(config.retry_delay * Power(config.backoff_multiplier, a - 1),
             config.max_retry_delay)

InRangeOffByOne(a) == a >= 1 /\ a <= config.max_retries + 1

\* "for attempt in range(1, self.config.max_retries + 1)" has an iteration a
InRange(a) == a >= 1 /\ a <= config.max_retries

\* the loop variable after iteration a: the next value of range(), or a
\* itself when range() is exhausted
NextAttempt(a) == IF InRange(a + 1) THEN a + 1 ELSE a

\* "isinstance(e, NonRetryableError)"
IsNonRetryableNever(o) == FALSE

IsNonRetryable(o) == o = "non_retryable"

\* "await asyncio.wait_for(operation(*args, **kwargs), timeout=...)": when
\* the timeout elapses wait_for cancels the operation it awaits and raises
\* TimeoutError
CancelsNever(o) == FALSE

CancelsOnTimeout(o) == o = "timeout"

\* "strategy_used=RecoveryStrategy.RETRY if attempt > 1 else None"
StrategyOfAnyAttempt(a) == IF a >= 1 THEN RETRY ELSE NoStrategy

StrategyOfAttempt(a) == IF a > 1 THEN RETRY ELSE NoStrategy

\* what an awaited operation can do: return, raise NonRetryableError, raise
\* another Exception, or run into the timeout of asyncio.wait_for
OperationOutcomes ==
    {"success", "retryable", "non_retryable"}
    \cup (IF config.timeout THEN {"timeout"} ELSE {})

RecoveryAttempt(n, strat, err, ok) ==
    [attempt_number |-> n, strategy |-> strat, error |-> err, success |-> ok]

LastError(atts) ==
    IF Len(atts) > 0 THEN atts[Len(atts)].error ELSE "unknown"

SuccessResult(atts, strat) ==
    [success |-> TRUE, error |-> "none", attempts |-> atts, strategy_used |-> strat]

FailureResult(atts) ==
    [success |-> FALSE, error |-> LastError(atts), attempts |-> atts,
     strategy_used |-> NoStrategy]

RecConfigs ==
    [max_retries : 0..MaxRetriesBound,
     exponential_backoff : BOOLEAN,
     retry_delay : {RetryDelay},
     backoff_multiplier : {BackoffMultiplier},
     max_retry_delay : {MaxRetryDelayBound},
     timeout : BOOLEAN,
     cleanup_on_failure : BOOLEAN,
     hardware_fallback_enabled : BOOLEAN]

RecInit ==
    /\ config \in RecConfigs
    /\ fallback_operation \in BOOLEAN
    /\ cleanup_func \in BOOLEAN
    /\ rec_pc = "start"
    /\ attempt = 0
    /\ attempts = <<>>
    /\ calls = [operation |-> 0, fallback |-> 0, cleanup |-> 0, cancelled |-> 0]
    /\ outcomes = <<>>
    /\ delays = <<>>
    /\ recovery_result = NoValue

\* "if cleanup_func and self.config.cleanup_on_failure" and what follows it
AfterFallbackAlwaysCleans(atts, cl) ==
    IF cleanup_func
    THEN [pc |-> "cleanup", calls |-> [cl EXCEPT !.cleanup = @ + 1], result |-> NoValue]
    ELSE [pc |-> "done", calls |-> cl, result |-> FailureResult(atts)]

AfterFallback(atts, cl) ==
    IF cleanup_func /\ config.cleanup_on_failure
    THEN [pc |-> "cleanup", calls |-> [cl EXCEPT !.cleanup = @ + 1], result |-> NoValue]
    ELSE [pc |-> "done", calls |-> cl, result |-> FailureResult(atts)]

\* "if fallback_operation and self.config.hardware_fallback_enabled" and
\* what follows it
AfterLoopAlwaysFallsBack(atts, cl) ==
    IF fallback_operation
    THEN [pc |-> "fallback", calls |-> [cl EXCEPT !.fallback = @ + 1], result |-> NoValue]
    ELSE AfterFallback(atts, cl)

AfterLoop(atts, cl) ==
    IF fallback_operation /\ config.hardware_fallback_enabled
    THEN [pc |-> "fallback", calls |-> [cl EXCEPT !.fallback = @ + 1], result |-> NoValue]
    ELSE AfterFallback(atts, cl)

\* the head of the for loop for iteration a: call the operation, or leave
\* the loop when range() is exhausted
LoopHead(a, atts, cl) ==
    IF InRange(a)
    THEN [pc |-> "operation", calls |-> [cl EXCEPT !.operation = @ + 1], result |-> NoValue]
    ELSE AfterLoop(atts, cl)

Goto(n) ==
    /\ rec_pc' = n.pc
    /\ calls' = n.calls
    /\ recovery_result' = n.result

\* execute_with_recovery up to the first await
RecoveryStart ==
    /\ rec_pc = "start"
    /\ attempt' = 1
    /\ Goto(LoopHead(1, attempts, calls))
    /\ UNCHANGED <<config, fallback_operation, cleanup_func, attempts, outcomes, delays>>
    /\ UNCHANGED notRecVars

\* "await self._execute_with_timeout(operation, ...)" ends with outcome o
OperationEnds(o) ==
    /\ rec_pc = "operation"
    /\ o \in OperationOutcomes
    /\ outcomes' = Append(outcomes, o)
    /\ LET cl == IF CancelsOnTimeout(o)
                 THEN [calls EXCEPT !.cancelled = @ + 1] ELSE calls IN
       IF o = "success"
       THEN /\ Goto([pc |-> "done", calls |-> cl,
                     result |-> SuccessResult(attempts, StrategyOfAttempt(attempt))])
            /\ UNCHANGED <<attempt, attempts, delays>>
       ELSE LET atts == Append(attempts, RecoveryAttempt(attempt, RETRY, o, FALSE)) IN
            /\ attempts' = atts
            /\ IF IsNonRetryable(o)
               THEN /\ Goto(AfterLoop(atts, cl))
                    /\ UNCHANGED <<attempt, delays>>
               ELSE IF attempt < config.max_retries
               THEN /\ delays' = Append(delays, CalculateRetryDelay(attempt))
                    /\ Goto([pc |-> "sleep", calls |-> cl, result |-> NoValue])
                    /\ UNCHANGED attempt
               ELSE /\ attempt' = NextAttempt(attempt)
                    /\ Goto(LoopHead(attempt + 1, atts, cl))
                    /\ UNCHANGED delays
    /\ UNCHANGED <<config, fallback_operation, cleanup_func>>
    /\ UNCHANGED notRecVars

\* "await asyncio.sleep(delay)" is over: the next iteration of the loop
SleepEnds ==
    /\ rec_pc = "sleep"
    /\ attempt' = NextAttempt(attempt)
    /\ Goto(LoopHead(attempt + 1, attempts, calls))
    /\ UNCHANGED <<config, fallback_operation, cleanup_func, attempts, outcomes, delays>>
    /\ UNCHANGED notRecVars

\* "await self._execute_with_timeout(fallback_operation, ...)" ends
FallbackEnds(ok) ==
    /\ rec_pc = "fallback"
    /\ LET atts == Append(attempts,
                     RecoveryAttempt(Len(attempts) + 1, FALLBACK,
                        IF ok THEN LastError(attempts) ELSE "fallback_error", ok)) IN
       /\ attempts' = atts
       /\ IF ok
          THEN Goto([pc |-> "done", calls |-> calls,
                     result |-> SuccessResult(atts, FALLBACK)])
          ELSE Goto(AfterFallback(atts, calls))
    /\ UNCHANGED <<config, fallback_operation, cleanup_func, attempt, outcomes, delays>>
    /\ UNCHANGED notRecVars

\* "await cleanup_func()" ends; an exception of it is logged and dropped
CleanupEnds(raises) ==
    /\ rec_pc = "cleanup"
    /\ Goto([pc |-> "done", calls |-> calls, result |-> FailureResult(attempts)])
    /\ UNCHANGED <<config, fallback_operation, cleanup_func, attempt, attempts,
                   outcomes, delays>>
    /\ UNCHANGED notRecVars

NextRecovery ==
    \/ RecoveryStart
    \/ \E o \in {"success", "retryable", "non_retryable", "timeout"} : OperationEnds(o)
    \/ SleepEnds
    \/ \E ok \in BOOLEAN : FallbackEnds(ok)
    \/ \E raises \in BOOLEAN : CleanupEnds(raises)

\* ==================================================================
\* AsyncFFmpegProcess: run() and terminate()
\* ==================================================================
\* Python's None, for self.timeout, self._duration and returncode
None == -1

\* truth value of an Optional[float]: None and 0.0 are false
Truthy(x) == x # None /\ x # 0

SIGTERM == "SIGTERM"
SIGKILL == "SIGKILL"

\* "self._process.terminate()"
ProcessTerminateKills == SIGKILL

ProcessTerminate == SIGTERM

\* "self._process.kill()"
ProcessKill == SIGKILL

\* the coroutines that call terminate(): run() itself, in its exception
\* handlers, and a caller that holds the driver object
TerminateCallers == {"run", "caller"}

\* the stderr lines a child may write: a "Duration: ..." line (of 0 s or
\* 2 s), a "time=..." line (at 1 s or 3 s), or a line with neither
StderrLines == {<<"Duration", 0>>, <<"Duration", 2>>, <<"time", 1>>, <<"time", 3>>,
                <<"other", 0>>}

\* the return codes of a child: success, failure, death by SIGTERM or SIGKILL
ExitCodes ==
    {0, 1} \cup (IF \E i \in 1..Len(signals) : signals[i] = SIGTERM THEN {-15} ELSE {})
           \cup (IF \E i \in 1..Len(signals) : signals[i] = SIGKILL THEN {-9} ELSE {})

\* "if self._duration is None: ... self._duration = h * 3600 + m * 60 + s"
ParseDuration(line, dur) ==
    IF dur = None /\ line[1] = "Duration" THEN line[2] ELSE dur

\* "if self._duration and self.progress_callback: ... if progress_match:"
CallsCallback(line, dur) ==
    Truthy(dur) /\ driver_progress_callback /\ line[1] = "time"

\* "progress = min(current_time / self._duration, 1.0)", in percent
ProgressOf(line, dur) == Min((line[2] * 100) \div dur, 100)

\* "try: self.progress_callback(progress, speed) except Exception as e:
\* logger.warning(...)": an exception of the callback does not leave the try
CallbackEscapesWhenRaised(raises) == raises

CallbackEscapes(raises) == FALSE

\* "if self._process.returncode is None:" in terminate()
ReturncodeIgnored(rc) == TRUE

ReturncodeIsNone(rc) == rc = None

\* "timeout=self.timeout or 0.0"
TimeoutOrZero == IF Truthy(timeout) THEN timeout ELSE 0

\* what run() raises for the exception exc it handled
RunResult(exc) ==
    IF exc = "TimeoutError"
    THEN [kind |-> "ProcessTimeoutError", timeout |-> TimeoutOrZero]
    ELSE [kind |-> exc, timeout |-> None]

\* the state of the child as a caller of terminate() finds it
ChildState ==
    IF process = "none" THEN "none"
    ELSE IF returncode = None THEN "running" ELSE "exited"

\* terminate() up to its first suspension point, called by c: nothing
\* without a child or with a child that has exited, else SIGTERM and the
\* wait of up to 5 s
BeginTerminate(c) ==
    IF process = "started" /\ ReturncodeIsNone(returncode)
    THEN /\ signals' = Append(signals, ProcessTerminate)
         /\ term_pc' = [term_pc EXCEPT ![c] = "term_wait"]
    ELSE UNCHANGED <<signals, term_pc>>

\* an exception handler of run(): "await self.terminate()" and then the raise
HandlerOf(exc) ==
    /\ raising' = exc
    /\ BeginTerminate("run")
    /\ IF process = "started" /\ ReturncodeIsNone(returncode)
       THEN /\ run_pc' = "except"
            /\ UNCHANGED run_result
       ELSE /\ run_pc' = "done"
            /\ run_result' = RunResult(exc)

\* "except asyncio.TimeoutError: ... await self.terminate()"
ReportsTimeoutOnly == FALSE

TerminatesOnTimeout == TRUE

TimeoutValues == {None} \cup 0..MaxTimeoutBound

DrvInit ==
    /\ timeout \in TimeoutValues
    /\ driver_progress_callback \in BOOLEAN
    /\ process = "none"
    /\ returncode = None
    /\ signals = <<>>
    /\ run_pc = "idle"
    /\ raising = "none"
    /\ run_result = NoValue
    /\ term_pc = [c \in TerminateCallers |-> "idle"]
    /\ terminate_log = <<>>
    /\ duration = None
    /\ stderr_lines = 0
    /\ callbacks = <<>>

\* run() up to "await self._communicate_with_progress()": the child is
\* spawned, or create_subprocess_exec raises
Run(spawned) ==
    /\ run_pc = "idle"
    /\ IF spawned
       THEN /\ process' = "started"
            /\ run_pc' = "communicate"
            /\ UNCHANGED <<raising, run_result, signals, term_pc>>
       ELSE /\ HandlerOf("OSError")
            /\ UNCHANGED process
    /\ UNCHANGED <<timeout, driver_progress_callback, returncode, terminate_log,
                   duration, stderr_lines, callbacks>>
    /\ UNCHANGED notDrvVars

\* one iteration of the loop of _read_stderr over a line the child wrote
ReadLine(line, raises) ==
    /\ run_pc = "communicate"
    /\ returncode = None
    /\ stderr_lines < MaxLines
    /\ LET dur == ParseDuration(line, duration)
           called == CallsCallback(line, dur) IN
       /\ raises => called
       /\ duration' = dur
       /\ stderr_lines' = stderr_lines + 1
       /\ callbacks' = IF called
                       THEN Append(callbacks, [line |-> stderr_lines + 1,
                                               progress |-> ProgressOf(line, dur),
                                               raised |-> raises])
                       ELSE callbacks
       /\ IF called /\ CallbackEscapes(raises)
          THEN HandlerOf("CallbackError")
          ELSE UNCHANGED <<raising, run_pc, run_result, signals, term_pc>>
    /\ UNCHANGED <<timeout, driver_progress_callback, process, returncode, terminate_log>>
    /\ UNCHANGED notDrvVars

\* the child exits and the event loop sets its returncode
ChildExits(rc) ==
    /\ process = "started"
    /\ returncode = None
    /\ rc \in ExitCodes
    /\ returncode' = rc
    /\ UNCHANGED <<timeout, driver_progress_callback, process, signals, run_pc, raising,
                   run_result, term_pc, terminate_log, duration, stderr_lines, callbacks>>
    /\ UNCHANGED notDrvVars

\* _communicate_with_progress returns after "await self._process.wait()":
\* run() returns, or raises FFmpegError through its generic handler
CommunicateReturns ==
    /\ run_pc = "communicate"
    /\ returncode # None
    /\ IF returncode = 0
       THEN /\ run_pc' = "done"
            /\ run_result' = [kind |-> "returned", timeout |-> None]
            /\ UNCHANGED <<raising, signals, term_pc>>
       ELSE HandlerOf("FFmpegError")
    /\ UNCHANGED <<timeout, driver_progress_callback, process, returncode, terminate_log,
                   duration, stderr_lines, callbacks>>
    /\ UNCHANGED notDrvVars

\* the timeout of "asyncio.wait_for(self._communicate_with_progress(),
\* timeout=self.timeout)" elapses: the readers are cancelled and run()
\* is in "except asyncio.TimeoutError"
TimeoutElapses ==
    /\ run_pc = "communicate"
    /\ Truthy(timeout)
    /\ IF TerminatesOnTimeout
       THEN HandlerOf("TimeoutError")
       ELSE /\ raising' = "TimeoutError"
            /\ run_pc' = "done"
            /\ run_result' = RunResult("TimeoutError")
            /\ UNCHANGED <<signals, term_pc>>
    /\ UNCHANGED <<timeout, driver_progress_callback, process, returncode, terminate_log,
                   duration, stderr_lines, callbacks>>
    /\ UNCHANGED notDrvVars

\* the task that awaits run() is cancelled: CancelledError is raised at the
\* await run() is suspended at and passes both handlers
RunCancelled ==
    /\ run_pc \in {"communicate", "except"}
    /\ run_pc' = "done"
    /\ run_result' = [kind |-> "CancelledError", timeout |-> None]
    /\ term_pc' = [term_pc EXCEPT !["run"] = "idle"]
    /\ UNCHANGED <<timeout, driver_progress_callback, process, returncode, signals,
                   raising, terminate_log, duration, stderr_lines, callbacks>>
    /\ UNCHANGED notDrvVars

\* a caller calls terminate()
Terminate ==
    /\ term_pc["caller"] = "idle"
    /\ Len(terminate_log) < MaxTerminateCalls
    /\ terminate_log' = Append(terminate_log, ChildState)
    /\ BeginTerminate("caller")
    /\ UNCHANGED <<timeout, driver_progress_callback, process, returncode, run_pc,
                   raising, run_result, duration, stderr_lines, callbacks>>
    /\ UNCHANGED notDrvVars

\* "await asyncio.wait_for(self._process.wait(), timeout=5.0)" or the
\* "await self._process.wait()" after kill() returns in the terminate() of
\* c: the child has exited; in run() the handler then raises
WaitReturns(c) ==
    /\ term_pc[c] \in {"term_wait", "kill_wait"}
    /\ returncode # None
    /\ term_pc' = [term_pc EXCEPT ![c] = "idle"]
    /\ IF c = "run"
       THEN /\ run_pc' = "done"
            /\ run_result' = RunResult(raising)
       ELSE UNCHANGED <<run_pc, run_result>>
    /\ UNCHANGED <<timeout, driver_progress_callback, process, returncode, signals,
                   raising, terminate_log, duration, stderr_lines, callbacks>>
    /\ UNCHANGED notDrvVars

\* the 5 s of the wait in the terminate() of c are over with the child
\* still running: "self._process.kill()"
GraceExpires(c) ==
    /\ term_pc[c] = "term_wait"
    /\ returncode = None
    /\ signals' = Append(signals, ProcessKill)
    /\ term_pc' = [term_pc EXCEPT ![c] = "kill_wait"]
    /\ UNCHANGED <<timeout, driver_progress_callback, process, returncode, run_pc,
                   raising, run_result, terminate_log, duration, stderr_lines, callbacks>>
    /\ UNCHANGED notDrvVars

NextDriver ==
    \/ \E spawned \in BOOLEAN : Run(spawned)
    \/ \E line \in StderrLines, raises \in BOOLEAN : ReadLine(line, raises)
    \/ \E rc \in {0, 1, -15, -9} : ChildExits(rc)
    \/ CommunicateReturns
    \/ TimeoutElapses
    \/ RunCancelled
    \/ Terminate
    \/ \E c \in TerminateCallers : WaitReturns(c)
    \/ \E c \in TerminateCallers : GraceExpires(c)

\* ==================================================================
\* HardwareDetector: detect() and clear_cache()
\* ==================================================================
DetectCalls == 1..MaxDetectCalls

\* HardwareType
NVIDIA == "nvidia"
INTEL == "intel"
AMD == "amd"
APPLE == "apple"
VAAPI == "vaapi"
SOFTWARE == "software"
HardwareTypes == {NVIDIA, INTEL, AMD, APPLE, VAAPI, SOFTWARE}

\* one entry of HardwareDetector.ENCODERS; has_h264 is the value of
\* '"h264" in encoder.name', which no software encoder name satisfies
Encoder(n, t, h) == [name |-> n, hardware_type |-> t, has_h264 |-> h]

\* HardwareDetector.ENCODERS, in its order
ENCODERS ==
    << Encoder("h264_nvenc", NVIDIA, TRUE), Encoder("hevc_nvenc", NVIDIA, FALSE),
       Encoder("h264_qsv", INTEL, TRUE), Encoder("hevc_qsv", INTEL, FALSE),
       Encoder("h264_amf", AMD, TRUE), Encoder("hevc_amf", AMD, FALSE),
       Encoder("h264_videotoolbox", APPLE, TRUE), Encoder("hevc_videotoolbox", APPLE, FALSE),
       Encoder("h264_vaapi", VAAPI, TRUE), Encoder("hevc_vaapi", VAAPI, FALSE),
       Encoder("libx264", SOFTWARE, FALSE), Encoder("libx265", SOFTWARE, FALSE) >>

EncoderNames == {ENCODERS[i].name : i \in 1..Len(ENCODERS)}

\* the names of the catalog that belong to family t
NamesOf(t) == {ENCODERS[i].name : i \in {j \in 1..Len(ENCODERS) : ENCODERS[j].hardware_type = t}}

\* no encoder: selected_encoder = None
NoEncoder == "none"

\* the values of prefer: 'auto', a family, or a word that names no family
PreferValues == {"auto", "cuda"} \cup HardwareTypes

\* every pair of arguments of detect()
DetectArgs == [prefer : PreferValues, test_encoding : BOOLEAN]

\* the sets of at most MaxOffered catalog names ffmpeg may list
OfferedSets == {o \in SUBSET EncoderNames : Cardinality(o) <= MaxOffered}

\* "priority = [NVIDIA, APPLE, INTEL, AMD, VAAPI, SOFTWARE]"
Priority == <<NVIDIA, APPLE, INTEL, AMD, VAAPI, SOFTWARE>>

\* the first family of the sequence order, from position k on, that has a
\* name in avail; SOFTWARE when there is none
RECURSIVE FirstFamily(_, _, _)
FirstFamily(order, k, avail) ==
    IF k > Len(order) THEN SOFTWARE
    ELSE IF NamesOf(order[k]) \cap avail # {} THEN order[k]
    ELSE FirstFamily(order, k + 1, avail)

\* _determine_hardware_type(encoders, prefer), avail the names marked available
DetermineHardwareType(avail, prefer) ==
    IF prefer # "auto" /\ prefer \in HardwareTypes /\ NamesOf(prefer) \cap avail # {}
    THEN prefer
    ELSE FirstFamily(Priority, 1, avail)

\* the first encoder of ENCODERS, from position k on, that is in the set
\* names and whose name contains "h264"; NoEncoder when there is none
RECURSIVE FirstH264(_, _)
FirstH264(k, names) ==
    IF k > Len(ENCODERS) THEN NoEncoder
    ELSE IF ENCODERS[k].name \in names /\ ENCODERS[k].has_h264 THEN ENCODERS[k].name
    ELSE FirstH264(k + 1, names)

\* _select_encoder(hardware_info, prefer)
SelectEncoder(avail, detected) ==
    IF FirstH264(1, avail \cap NamesOf(detected)) # NoEncoder
    THEN FirstH264(1, avail \cap NamesOf(detected))
    ELSE FirstH264(1, avail)

\* the encoders _test_encoders probes: the available ones that are not
\* software encoders
Probed(avail) == avail \ NamesOf(SOFTWARE)

\* the HardwareInfo object the n-th completed detection creates for a call
\* with preference prefer, when ffmpeg lists the names offered and the
\* probes of the names in failed fail (probes is FALSE without test_encoding):
\* detected_type is determined before the probes, selected_encoder after
HardwareInfo(n, offered, prefer, probes, failed) ==
    LET listed == offered \cap EncoderNames
        detected == DetermineHardwareType(listed, prefer)
        avail == IF probes THEN listed \ failed ELSE listed
    IN [id |-> n,
        detected_type |-> detected,
        available |-> avail,
        tested |-> IF probes THEN Probed(listed) \ failed ELSE {},
        selected_encoder |-> SelectEncoder(avail, detected)]

\* "if self._cache is not None: return self._cache"
CacheMiss == cache = NoValue

DetEvent(e, c, i, f) == [event |-> e, call |-> c, info |-> i, fresh |-> f]

\* one detector that several coroutines call, on a machine whose ffmpeg
\* lists one hardware and one software encoder
DetInit ==
    /\ ffmpeg_installed \in BOOLEAN
    /\ ffmpeg_encoders = {"h264_nvenc", "libx264"}
    /\ det_inputs = [prefer : {"auto", SOFTWARE}, test_encoding : BOOLEAN]
    /\ cache = NoValue
    /\ det_pc = [c \in DetectCalls |-> "idle"]
    /\ det_args = [c \in DetectCalls |-> [prefer |-> "auto", test_encoding |-> FALSE]]
    /\ det_log = <<>>
    /\ detections = 0
    /\ clears = 0

\* one detector called once, with any arguments, on a machine whose ffmpeg
\* lists any set of at most MaxOffered encoders of the catalog
SelInit ==
    /\ ffmpeg_installed = TRUE
    /\ ffmpeg_encoders \in OfferedSets
    /\ det_inputs = DetectArgs
    /\ cache = NoValue
    /\ det_pc = [c \in DetectCalls |-> IF c = 1 THEN "idle" ELSE "unused"]
    /\ det_args = [c \in DetectCalls |-> [prefer |-> "auto", test_encoding |-> FALSE]]
    /\ det_log = <<>>
    /\ detections = 0
    /\ clears = 0

\* detect() from "hardware_info = HardwareInfo(...)" to its return: the
\* object is created, stored in self._cache and returned
DetectionEnds(c, log, failed) ==
    LET info == HardwareInfo(detections + 1, ffmpeg_encoders, det_args[c].prefer,
                             det_args[c].test_encoding, failed) IN
    /\ detections' = detections + 1
    /\ cache' = info
    /\ det_pc' = [det_pc EXCEPT ![c] = "done"]
    /\ det_log' = Append(log, DetEvent("return", c, info.id, TRUE))

\* call c of detect(prefer, test_encoding), up to its first suspension
\* point: the cached object is returned, or HardwareError is raised
\* because there is no ffmpeg, or "ffmpeg -encoders" is started
Detect(c, a) ==
    /\ det_pc[c] = "idle"
    /\ a \in det_inputs
    /\ \A b \in 1..(c - 1) : det_pc[b] # "idle"
    /\ det_args' = [det_args EXCEPT ![c] = a]
    /\ LET log == Append(det_log, DetEvent("start", c, 0, FALSE)) IN
       IF ~CacheMiss
       THEN /\ det_pc' = [det_pc EXCEPT ![c] = "done"]
            /\ det_log' = Append(log, DetEvent("return", c, cache.id, FALSE))
       ELSE IF ~ffmpeg_installed
       THEN /\ det_pc' = [det_pc EXCEPT ![c] = "done"]
            /\ det_log' = Append(log, DetEvent("raise", c, 0, FALSE))
       ELSE /\ det_pc' = [det_pc EXCEPT ![c] = "encoders"]
            /\ det_log' = log
    /\ UNCHANGED <<ffmpeg_installed, ffmpeg_encoders, det_inputs, cache, detections, clears>>
    /\ UNCHANGED notDetVars

\* "await self._get_ffmpeg_encoders()" of call c ends: with HardwareError,
\* or with the encoder names, after which the probe tests are started when
\* test_encoding is set
EncodersEnd(c, ok) ==
    /\ det_pc[c] = "encoders"
    /\ IF ~ok
       THEN /\ det_pc' = [det_pc EXCEPT ![c] = "done"]
            /\ det_log' = Append(det_log, DetEvent("raise", c, 0, FALSE))
            /\ UNCHANGED <<cache, detections>>
       ELSE IF det_args[c].test_encoding
       THEN /\ det_pc' = [det_pc EXCEPT ![c] = "testing"]
            /\ UNCHANGED <<det_log, cache, detections>>
       ELSE DetectionEnds(c, det_log, {})
    /\ UNCHANGED <<ffmpeg_installed, ffmpeg_encoders, det_inputs, det_args, clears>>
    /\ UNCHANGED notDetVars

\* "await self._test_encoders(encoders)" of call c ends, the probes of
\* the encoders in failed having failed (non-zero exit, timeout, or error)
TestsEnd(c, failed) ==
    /\ det_pc[c] = "testing"
    /\ failed \subseteq Probed(ffmpeg_encoders \cap EncoderNames)
    /\ DetectionEnds(c, det_log, failed)
    /\ UNCHANGED <<ffmpeg_installed, ffmpeg_encoders, det_inputs, det_args, clears>>
    /\ UNCHANGED notDetVars

\* clear_cache()
ClearCache ==
    /\ clears < MaxClearCalls
    /\ clears' = clears + 1
    /\ cache' = NoValue
    /\ det_log' = Append(det_log, DetEvent("clear", 0, 0, FALSE))
    /\ UNCHANGED <<ffmpeg_installed, ffmpeg_encoders, det_inputs, det_pc, det_args,
                   detections>>
    /\ UNCHANGED notDetVars

NextDetector ==
    \/ \E c \in DetectCalls, a \in det_inputs : Detect(c, a)
    \/ \E c \in DetectCalls, ok \in BOOLEAN : EncodersEnd(c, ok)
    \/ \E c \in DetectCalls, failed \in SUBSET Probed(ffmpeg_encoders) : TestsEnd(c, failed)
    \/ ClearCache

\* ==================================================================
\* Part 5: ExecutionPlanner (hls_transcoder/planner/strategy.py) with the
\* resolution helpers (hls_transcoder/utils/helpers.py) and the output
\* paths of the workers the tasks are run by
\* ==================================================================
\* the quality labels a QualityVariant may carry
QualityLabels == {"2160p", "1440p", "1080p", "720p", "480p", "360p", "240p", "original"}

\* get_standard_resolutions(): <<width, height>> of a label
StandardResolutions ==
    [q \in QualityLabels \ {"original"} |->
        CASE q = "2160p" -> <<3840, 2160>>
          [] q = "1440p" -> <<2560, 1440>>
          [] q = "1080p" -> <<1920, 1080>>
          [] q = "720p" -> <<1280, 720>>
          [] q = "480p" -> <<854, 480>>
          [] q = "360p" -> <<640, 360>>
          [] q = "240p" -> <<426, 240>>]

\* VideoQuality(name, height, bitrate, maxrate, bufsize, custom_width)
VideoQuality(n, h, b, m, s, w) ==
    [name |-> n, height |-> h, bitrate |-> b, maxrate |-> m, bufsize |-> s,
     custom_width |-> w]

\* QUALITY_PRESETS: there is no preset for 240p
QUALITY_PRESETS ==
    [q \in {"2160p", "1440p", "1080p", "720p", "480p", "360p"} |->
        CASE q = "2160p" -> VideoQuality(q, 2160, 12000, 18000, 24000, None)
          [] q = "1440p" -> VideoQuality(q, 1440, 8000, 12000, 16000, None)
          [] q = "1080p" -> VideoQuality(q, 1080, 5000, 7500, 10000, None)
          [] q = "720p" -> VideoQuality(q, 720, 3000, 4500, 6000, None)
          [] q = "480p" -> VideoQuality(q, 480, 1500, 2250, 3000, None)
          [] q = "360p" -> VideoQuality(q, 360, 800, 1200, 1600, None)]

\* get_quality_from_height(height), exact_match = False
GetQualityFromHeight(height) ==
    LET fits == {q \in DOMAIN StandardResolutions : height >= StandardResolutions[q][2]} IN
    IF fits = {} THEN "240p"
    ELSE CHOOSE q \in fits :
            \A r \in fits : StandardResolutions[r][2] <= StandardResolutions[q][2]

\* should_include_quality, called with allow_upscaling = True
ShouldIncludeQualityUpscaling(source_height, target_quality, allow_upscaling) ==
    IF target_quality = "original" THEN TRUE
    ELSE target_quality \in DOMAIN StandardResolutions

\* should_include_quality(source_height, target_quality, allow_upscaling)
ShouldIncludeQuality(source_height, target_quality, allow_upscaling) ==
    IF target_quality = "original" THEN TRUE
    ELSE IF target_quality \notin DOMAIN StandardResolutions THEN FALSE
    ELSE IF StandardResolutions[target_quality][2] > source_height /\ ~allow_upscaling
    THEN FALSE
    ELSE TRUE

\* "x if x % 2 == 0 else x - 1"
EvenDown(x) == IF x % 2 = 0 THEN x ELSE x - 1

\* calculate_target_resolution(source_width, source_height, target_quality):
\* int(target_height * (source_width / source_height)) is the product
\* truncated, both factors being positive
CalculateTargetResolution(source_width, source_height, target_quality) ==
    IF target_quality = "original" THEN <<source_width, source_height>>
    ELSE IF target_quality \notin DOMAIN StandardResolutions
    THEN <<source_width, source_height>>
    ELSE LET target_height == StandardResolutions[target_quality][2]
             target_width == (target_height * source_width) \div source_height
         IN <<EvenDown(target_width), EvenDown(target_height)>>

\* the single variant of the original-only mode
OriginalQuality(source_width, source_height) ==
    LET source_quality_name == GetQualityFromHeight(source_height)
        estimated_bitrate == (source_width * source_height) \div 10000
    IN IF source_quality_name \in DOMAIN QUALITY_PRESETS
       THEN VideoQuality("original", source_height,
                         QUALITY_PRESETS[source_quality_name].bitrate,
                         QUALITY_PRESETS[source_quality_name].maxrate,
                         QUALITY_PRESETS[source_quality_name].bufsize, source_width)
       ELSE VideoQuality("original", source_height, estimated_bitrate,
                         (estimated_bitrate * 3) \div 2, estimated_bitrate * 2,
                         source_width)

\* the variant the loop over the profile appends for the label: none for
\* "original", for a label without a preset, and for one that would upscale
VariantsOf(label, source_width, source_height) ==
    IF label = "original" THEN <<>>
    ELSE IF label \notin DOMAIN QUALITY_PRESETS THEN <<>>
    ELSE IF ~ShouldIncludeQuality(source_height, label, FALSE) THEN <<>>
    ELSE LET target == CalculateTargetResolution(source_width, source_height, label) IN
         << VideoQuality(label, target[2], QUALITY_PRESETS[label].bitrate,
                         QUALITY_PRESETS[label].maxrate, QUALITY_PRESETS[label].bufsize,
                         target[1]) >>

\* the loop "for variant in self.profile"
RECURSIVE CollectVariants(_, _, _)
CollectVariants(labels, source_width, source_height) ==
    IF labels = <<>> THEN <<>>
    ELSE VariantsOf(Head(labels), source_width, source_height)
         \o CollectVariants(Tail(labels), source_width, source_height)

\* q placed into the sequence sorted by height descending, behind the
\* variants of the same height
InsertByHeight(q, sorted) ==
    LET k == Cardinality({i \in DOMAIN sorted : sorted[i].height >= q.height}) IN
    SubSeq(sorted, 1, k) \o <<q>> \o SubSeq(sorted, k + 1, Len(sorted))

\* "qualities.sort(key=lambda q: q.height, reverse=True)": a stable sort
RECURSIVE SortByHeight(_)
SortByHeight(qualities) ==
    IF qualities = <<>> THEN <<>>
    ELSE InsertByHeight(qualities[Len(qualities)],
                        SortByHeight(SubSeq(qualities, 1, Len(qualities) - 1)))

\* _calculate_quality_ladder(original_only); the profile is not empty
CalculateQualityLadder(original_only) ==
    IF media_info.video_streams = <<>> THEN <<>>
    ELSE LET source_video == media_info.video_streams[1] IN
         IF original_only
         THEN << OriginalQuality(source_video.width, source_video.height) >>
         ELSE SortByHeight(CollectVariants(profile, source_video.width,
                                           source_video.height))

\* VideoQuality.width
WidthOf(quality) ==
    IF quality.custom_width # None THEN quality.custom_width
    ELSE (quality.height * 16) \div 9

\* "language = stream.language or 'und'": None and "" give "und"
LanguageOrUnd(language) == IF language = "" THEN "und" ELSE language

\* the encoder of the video tasks
EncoderName ==
    IF hardware_info.selected_encoder # NoEncoder THEN hardware_info.selected_encoder
    ELSE IF /\ hardware_info.detected_type # SOFTWARE
            /\ hardware_info.available \cap NamesOf(hardware_info.detected_type) # {}
    THEN LET k == CHOOSE i \in 1..Len(ENCODERS) :
                     /\ ENCODERS[i].name \in hardware_info.available
                     /\ ENCODERS[i].hardware_type = hardware_info.detected_type
                     /\ \A j \in 1..(i - 1) :
                           ~ ( /\ ENCODERS[j].name \in hardware_info.available
                               /\ ENCODERS[j].hardware_type = hardware_info.detected_type )
         IN ENCODERS[k].name
    ELSE "libx264"

\* _create_video_tasks(qualities); a path is the sequence of its parts
CreateVideoTasks(qualities) ==
    IF media_info.video_streams = <<>> THEN <<>>
    ELSE [i \in DOMAIN qualities |->
            [task_id |-> <<"video", qualities[i].name>>,
             task_type |-> "video",
             output_dir |-> <<"video", qualities[i].name>>,
             quality |-> qualities[i].name,
             width |-> WidthOf(qualities[i]),
             height |-> qualities[i].height,
             bitrate |-> qualities[i].bitrate,
             encoder |-> EncoderName,
             stream_index |-> media_info.video_streams[1].index]]

\* _create_audio_tasks()
CreateAudioTasks ==
    [i \in DOMAIN media_info.audio_streams |->
        LET audio_stream == media_info.audio_streams[i]
            language == LanguageOrUnd(audio_stream.language)
        IN [task_id |-> <<"audio", audio_stream.index, language>>,
            task_type |-> "audio",
            output_dir |-> <<"audio", language>>,
            stream_index |-> audio_stream.index,
            language |-> language]]

\* _create_subtitle_tasks()
CreateSubtitleTasks ==
    [i \in DOMAIN media_info.subtitle_streams |->
        LET subtitle_stream == media_info.subtitle_streams[i]
            language == LanguageOrUnd(subtitle_stream.language)
        IN [task_id |-> <<"subtitle", subtitle_stream.index, language>>,
            task_type |-> "subtitle",
            output_dir |-> <<"subtitles">>,
            stream_index |-> subtitle_stream.index,
            language |-> language]]

\* _create_sprite_task()
CreateSpriteTask ==
    [task_id |-> <<"sprites">>, task_type |-> "sprite", output_dir |-> <<"sprites">>]

\* the stream of the list with the index of the task: the one the worker
\* looks up with next(s for s in streams if s.index == task.stream_index)
StreamOf(streams, task) ==
    streams[CHOOSE i \in DOMAIN streams :
                /\ streams[i].index = task.stream_index
                /\ \A j \in 1..(i - 1) : streams[j].index # task.stream_index]

\* the name of the AudioQuality the executor builds from config.audio.bitrate
AudioQualityName == "audio_128k"

\* AudioExtractor._get_track_name(audio_stream, quality)
TrackName(audio_stream, quality_name) ==
    <<"audio", LanguageOrUnd(audio_stream.language), quality_name>>

\* a file: the pair of its directory and its name, each the sequence of
\* its parts; the segments of one playlist are named by their pattern
\* VideoTranscoder.transcode: the playlist and the segments of the quality
VideoOutputFiles(task) ==
    { <<task.output_dir, <<task.quality, ".m3u8">> >>,
      <<task.output_dir, <<task.quality, "_%03d.ts">> >> }

\* AudioExtractor.extract: the playlist and the segments of the track
AudioOutputFiles(task) ==
    LET track_name == TrackName(StreamOf(media_info.audio_streams, task), AudioQualityName)
    IN { <<task.output_dir, track_name \o <<".m3u8">> >>,
         <<task.output_dir, track_name \o <<"_%03d.ts">> >> }

\* SubtitleExtractor.extract: the WebVTT file of the stream
SubtitleOutputFiles(task) ==
    LET subtitle_stream == StreamOf(media_info.subtitle_streams, task) IN
    { <<task.output_dir,
        <<"subtitle", LanguageOrUnd(subtitle_stream.language),
          IF subtitle_stream.forced THEN "_forced" ELSE "", ".vtt">> >> }

\* SpriteGenerator: the sprite sheet and the WebVTT file
SpriteOutputFiles(task) ==
    { <<task.output_dir, <<"sprite", ".png">> >>,
      <<task.output_dir, <<"sprite", ".vtt">> >> }

\* the files the worker the executor runs for the task writes
OutputFiles(task) ==
    CASE task.task_type = "video" -> VideoOutputFiles(task)
      [] task.task_type = "audio" -> AudioOutputFiles(task)
      [] task.task_type = "subtitle" -> SubtitleOutputFiles(task)
      [] task.task_type = "sprite" -> SpriteOutputFiles(task)

\* TaskPlan.all_tasks of a plan
AllTasks(p) ==
    p.video_tasks \o p.audio_tasks \o p.subtitle_tasks
        \o (IF p.sprite_task = NoValue THEN <<>> ELSE <<p.sprite_task>>)

\* the heights and widths of the sources
SourceHeights == {240, 479, 768, 1080, 2160}
SourceWidths == {426, 853, 1366, 1920, 3840}

\* the languages of the streams; "" is a stream without a language tag
Languages == {"", "eng", "und"}

\* sequences of at most n elements of S
SeqUpTo(S, n) == UNION {[1..k -> S] : k \in 0..n}

\* the hardware an ExecutionPlanner may be given
PlannerHardware ==
    {HardwareInfo(1, o, "auto", FALSE, {}) :
        o \in {{"libx264"}, {"h264_nvenc", "libx264"}, {"hevc_nvenc", "libx264"}}}

\* MediaInfo from its video stream, the languages of its audio streams
\* and its subtitle streams; the streams are indexed in this order
MediaInfo(video, audio, subtitles) ==
    [video_streams |-> [i \in DOMAIN video |->
                           [index |-> i - 1, width |-> video[i][1], height |-> video[i][2]]],
     audio_streams |-> [i \in DOMAIN audio |->
                           [index |-> Len(video) + i - 1, language |-> audio[i]]],
     subtitle_streams |-> [i \in DOMAIN subtitles |->
                              [index |-> Len(video) + Len(audio) + i - 1,
                               language |-> subtitles[i].language,
                               forced |-> subtitles[i].forced]]]

\* a planner for a source of any size, or without video, and a profile of
\* at most MaxProfile variants
LadderInit ==
    /\ media_info \in {MediaInfo(v, <<"eng">>, <<>>) :
                          v \in {<<>>} \cup {<< <<w, h>> >> : w \in SourceWidths,
                                                            h \in SourceHeights}}
    /\ hardware_info = HardwareInfo(1, {"libx264"}, "auto", FALSE, {})
    /\ profile \in SeqUpTo(QualityLabels, MaxProfile) \ {<<>>}
    /\ sprites_enabled = TRUE
    /\ video_qualities = <<>>
    /\ plan = NoValue

\* a planner for a 1920x1080 source with at most MaxStreams audio and
\* MaxStreams subtitle streams
PlanInit ==
    /\ media_info \in {MediaInfo(<< <<1920, 1080>> >>, a, s) :
                          a \in SeqUpTo(Languages, MaxStreams),
                          s \in SeqUpTo([language : Languages, forced : BOOLEAN],
                                        MaxStreams)}
    /\ hardware_info \in PlannerHardware
    /\ profile \in {<<"1080p", "720p">>, <<"720p", "original">>}
    /\ sprites_enabled \in BOOLEAN
    /\ video_qualities = <<>>
    /\ plan = NoValue

\* create_plan(include_audio, include_subtitles, include_sprites,
\* original_only); the resource estimates of the plan are not modelled
CreatePlan(include_audio, include_subtitles, include_sprites, original_only) ==
    /\ video_qualities' = CalculateQualityLadder(original_only)
    /\ plan' = [video_tasks |-> CreateVideoTasks(video_qualities'),
                audio_tasks |-> IF include_audio /\ media_info.audio_streams # <<>>
                                THEN CreateAudioTasks ELSE <<>>,
                subtitle_tasks |-> IF include_subtitles /\ media_info.subtitle_streams # <<>>
                                   THEN CreateSubtitleTasks ELSE <<>>,
                sprite_task |-> IF include_sprites /\ sprites_enabled
                                THEN CreateSpriteTask ELSE NoValue]
    /\ UNCHANGED <<media_info, hardware_info, profile, sprites_enabled>>
    /\ UNCHANGED notPlanVars

NextPlanner ==
    \E include_audio, include_subtitles, include_sprites, original_only \in BOOLEAN :
        CreatePlan(include_audio, include_subtitles, include_sprites, original_only)

\* ==================================================================
\* Part 6: SpriteGenerator.generate (hls_transcoder/sprites/generator.py):
\* the three phases of one generate() call and the temporary directory
\* ==================================================================
\* math.ceil(a / b) for a >= 0 and b > 0
CeilDiv(a, b) == (a + b - 1) \div b

Max(a, b) == IF a > b THEN a ELSE b

\* _calculate_thumbnail_count(config)
CalculateThumbnailCount(cfg) == Max(1, CeilDiv(sprite_duration, cfg.interval))

\* the sheet count rounded down
CalculateSheetCountFloor(thumbnail_count, cfg) ==
    thumbnail_count \div (cfg.columns * cfg.rows)

\* _calculate_sheet_count(thumbnail_count, config)
CalculateSheetCount(thumbnail_count, cfg) ==
    CeilDiv(thumbnail_count, cfg.columns * cfg.rows)

\* the name of sprite sheet sheet_idx, after "with_suffix('.png')"
SpritePath(sheet_idx, sheet_count) ==
    IF sheet_count = 1 THEN <<"sprite", ".png">> ELSE <<"sprite", sheet_idx, ".png">>

\* a directory with n thumb_*.jpg files, or no directory
Dir(e, n) == [exists |-> e, thumbs |-> n]

\* cleanup that removes the thumbnails and leaves the directory
CleanupThumbnailsOnly(dir, late_write) ==
    IF ~dir.exists THEN dir ELSE Dir(TRUE, IF late_write THEN 1 ELSE 0)

\* _cleanup_temp_files(temp_dir): every thumb_*.jpg is unlinked and the
\* directory removed; rmdir fails, and the failure is only logged, when a
\* process wrote a thumbnail after the files were listed (late_write)
CleanupTempFiles(dir, late_write) ==
    IF ~dir.exists THEN dir
    ELSE IF late_write THEN Dir(TRUE, 1)
    ELSE Dir(FALSE, 0)

\* "sprite_paths[sheet_idx]" of _generate_vtt raises IndexError for a cue
VttIndexError(cfg, paths, thumbnail_count) ==
    \E i \in 0..(thumbnail_count - 1) :
        i \div (cfg.columns * cfg.rows) >= Len(paths)

\* the cues _generate_vtt writes, cue i at position i + 1
VttCues(cfg, paths, thumbnail_count) ==
    [k \in 1..thumbnail_count |->
        LET i == k - 1
            tiles_per_sheet == cfg.columns * cfg.rows
            sheet_idx == i \div tiles_per_sheet
            thumb_in_sheet == i % tiles_per_sheet
        IN [start_time |-> i * cfg.interval,
            end_time |-> Min(i * cfg.interval + cfg.interval, sprite_duration),
            sprite_name |-> paths[sheet_idx + 1],
            col |-> thumb_in_sheet % cfg.columns,
            row |-> thumb_in_sheet \div cfg.columns]]

SpriteConfigs ==
    [interval : 1..MaxInterval, columns : 1..MaxGrid, rows : 1..MaxGrid]

\* one generator whose output directory may hold a temporary directory
\* that an earlier run left behind
SpriteInit ==
    /\ sprite_config \in SpriteConfigs
    /\ sprite_duration \in 0..MaxDuration
    /\ sprite_pc = "idle"
    /\ temp_dir \in {Dir(FALSE, 0), Dir(TRUE, 0), Dir(TRUE, 1)}
    /\ extractor_alive = FALSE
    /\ sprite_paths = <<>>
    /\ vtt_cues = <<>>
    /\ sprite_error = "none"

\* generate() leaves through "except Exception" and "finally", the
\* temporary directory being dir: it raises TranscodingError, the
\* directory cleaned up
GenerateFails(phase, dir) ==
    /\ sprite_pc' = "failed"
    /\ sprite_error' = phase
    /\ temp_dir' = CleanupTempFiles(dir, FALSE)

\* generate() after the loop over the sheets, with the sheets in paths:
\* the VTT file is written and SpriteInfo returned, or IndexError of
\* _generate_vtt makes generate() fail; then "finally"
AfterSheets(paths, dir) ==
    LET thumbnail_count == CalculateThumbnailCount(sprite_config) IN
    IF VttIndexError(sprite_config, paths, thumbnail_count)
    THEN /\ GenerateFails("vtt", dir)
         /\ UNCHANGED vtt_cues
    ELSE /\ vtt_cues' = VttCues(sprite_config, paths, thumbnail_count)
         /\ sprite_pc' = "returned"
         /\ temp_dir' = CleanupTempFiles(dir, FALSE)
         /\ UNCHANGED sprite_error

\* generate(config) up to "await process.run()" of _extract_thumbnails:
\* the counts are calculated and the temporary directory is made
Generate ==
    /\ sprite_pc = "idle"
    /\ sprite_pc' = "extract"
    /\ temp_dir' = Dir(TRUE, temp_dir.thumbs)
    /\ extractor_alive' = TRUE
    /\ UNCHANGED <<sprite_config, sprite_duration, sprite_paths, vtt_cues, sprite_error>>
    /\ UNCHANGED notSpriteVars

\* run() of the extraction ends, the child having exited after writing
\* written thumbnails: it returned ("ok"), or raised FFmpegError or another
\* error; without any thumbnail in the directory the extraction fails
ExtractEnds(outcome, written) ==
    /\ sprite_pc = "extract"
    /\ written \in 0..CalculateThumbnailCount(sprite_config)
    /\ extractor_alive' = FALSE
    /\ LET files == Max(temp_dir.thumbs, written)
           thumbnail_count == CalculateThumbnailCount(sprite_config) IN
       IF outcome # "ok" \/ files = 0
       THEN /\ GenerateFails("extract", Dir(TRUE, files))
            /\ UNCHANGED <<sprite_paths, vtt_cues>>
       ELSE IF CalculateSheetCount(thumbnail_count, sprite_config) = 0
       THEN /\ AfterSheets(<<>>, Dir(TRUE, files))
            /\ UNCHANGED sprite_paths
       ELSE /\ sprite_pc' = "sheets"
            /\ temp_dir' = Dir(TRUE, files)
            /\ UNCHANGED <<sprite_paths, vtt_cues, sprite_error>>
    /\ UNCHANGED <<sprite_config, sprite_duration>>
    /\ UNCHANGED notSpriteVars

\* run() of the ffmpeg that tiles the next sprite sheet ends: the sheet
\* was created, or FFmpegError was raised or the file is missing; after
\* the last sheet generate() goes on to its end
SheetEnds(created) ==
    /\ sprite_pc = "sheets"
    /\ LET thumbnail_count == CalculateThumbnailCount(sprite_config)
           sheet_count == CalculateSheetCount(thumbnail_count, sprite_config)
           sheet_idx == Len(sprite_paths)
           paths == Append(sprite_paths, SpritePath(sheet_idx, sheet_count))
       IN IF ~created
          THEN /\ GenerateFails("sheets", temp_dir)
               /\ UNCHANGED <<sprite_paths, vtt_cues>>
          ELSE /\ sprite_paths' = paths
               /\ IF Len(paths) < sheet_count
                  THEN UNCHANGED <<sprite_pc, temp_dir, vtt_cues, sprite_error>>
                  ELSE AfterSheets(paths, temp_dir)
    /\ UNCHANGED <<sprite_config, sprite_duration, extractor_alive>>
    /\ UNCHANGED notSpriteVars

\* the task that awaits generate() is cancelled while a run() is awaited:
\* CancelledError passes "except Exception" and "finally" cleans up; the
\* child of a cancelled extraction is left running and may write a
\* thumbnail while the directory is cleaned up
GenerateCancelled(late_write) ==
    /\ sprite_pc \in {"extract", "sheets"}
    /\ late_write => extractor_alive
    /\ sprite_pc' = "cancelled"
    /\ temp_dir' = CleanupTempFiles(temp_dir, late_write)
    /\ UNCHANGED <<sprite_config, sprite_duration, extractor_alive, sprite_paths,
                   vtt_cues, sprite_error>>
    /\ UNCHANGED notSpriteVars

NextSprite ==
    \/ Generate
    \/ \E outcome \in {"ok", "FFmpegError", "error"}, written \in 0..MaxDuration :
          ExtractEnds(outcome, written)
    \/ \E created \in BOOLEAN : SheetEnds(created)
    \/ \E late_write \in BOOLEAN : GenerateCancelled(late_write)

\* ==================================================================
\* Part 7: PlaylistGenerator.generate_master_playlist
\* (hls_transcoder/playlist/generator.py)
\* ==================================================================
\* the language codes of the tracks, in the order of their strings
TrackLanguages == <<"eng", "spa">>

\* the position of a language code in the order of the strings
LanguageRank(language) == CHOOSE i \in DOMAIN TrackLanguages : TrackLanguages[i] = language

\* False sorts before True
BoolRank(b) == IF b THEN 1 ELSE 0

\* a <= b for the sort key (not t.is_default, t.language, -t.bitrate)
AudioKeyLeq(a, b) ==
    \/ BoolRank(~a.is_default) < BoolRank(~b.is_default)
    \/ /\ a.is_default = b.is_default
       /\ \/ LanguageRank(a.language) < LanguageRank(b.language)
          \/ /\ a.language = b.language
             /\ -a.bitrate <= -b.bitrate

\* a <= b for the sort key (not t.is_default, not t.forced, t.language)
SubtitleKeyLeq(a, b) ==
    \/ BoolRank(~a.is_default) < BoolRank(~b.is_default)
    \/ /\ a.is_default = b.is_default
       /\ \/ BoolRank(~a.forced) < BoolRank(~b.forced)
          \/ /\ a.forced = b.forced
             /\ LanguageRank(a.language) <= LanguageRank(b.language)

\* x placed into the sorted sequence behind the elements that are not
\* after it: sorted() is stable
InsertAudio(x, sorted) ==
    LET k == Cardinality({i \in DOMAIN sorted : AudioKeyLeq(sorted[i], x)}) IN
    SubSeq(sorted, 1, k) \o <<x>> \o SubSeq(sorted, k + 1, Len(sorted))

RECURSIVE SortAudio(_)
SortAudio(tracks) ==
    IF tracks = <<>> THEN <<>>
    ELSE InsertAudio(tracks[Len(tracks)], SortAudio(SubSeq(tracks, 1, Len(tracks) - 1)))

InsertSubtitle(x, sorted) ==
    LET k == Cardinality({i \in DOMAIN sorted : SubtitleKeyLeq(sorted[i], x)}) IN
    SubSeq(sorted, 1, k) \o <<x>> \o SubSeq(sorted, k + 1, Len(sorted))

RECURSIVE SortSubtitles(_)
SortSubtitles(tracks) ==
    IF tracks = <<>> THEN <<>>
    ELSE InsertSubtitle(tracks[Len(tracks)],
                        SortSubtitles(SubSeq(tracks, 1, Len(tracks) - 1)))

\* sorted(video_variants, key=lambda v: v.bitrate, reverse=True)
InsertVariant(x, sorted) ==
    LET k == Cardinality({i \in DOMAIN sorted : sorted[i].bitrate >= x.bitrate}) IN
    SubSeq(sorted, 1, k) \o <<x>> \o SubSeq(sorted, k + 1, Len(sorted))

RECURSIVE SortVariants(_)
SortVariants(variants) ==
    IF variants = <<>> THEN <<>>
    ELSE InsertVariant(variants[Len(variants)],
                       SortVariants(SubSeq(variants, 1, Len(variants) - 1)))

\* the attribute value of a flag
YesNo(b) == IF b THEN "YES" ELSE "NO"

\* _generate_audio_entry(track): the attributes of the #EXT-X-MEDIA line
GenerateAudioEntry(track) ==
    [TYPE |-> "AUDIO", GROUP_ID |-> "audio", NAME |-> track.name,
     LANGUAGE |-> track.language, DEFAULT |-> YesNo(track.is_default),
     AUTOSELECT |-> YesNo(track.is_default)]

\* _generate_subtitle_entry(track); no AUTOSELECT=NO and no FORCED=NO is
\* written
GenerateSubtitleEntry(track) ==
    [TYPE |-> "SUBTITLES", GROUP_ID |-> "subtitles", NAME |-> track.name,
     LANGUAGE |-> track.language, DEFAULT |-> YesNo(track.is_default),
     AUTOSELECT |-> IF track.is_default THEN "YES" ELSE "",
     FORCED |-> IF track.forced THEN "YES" ELSE ""]

\* _generate_variant_entry(variant, has_audio, has_subtitles,
\* audio_group_id) for a variant without embedded audio
GenerateVariantEntry(variant, has_audio, has_subtitles) ==
    [BANDWIDTH |-> variant.bitrate * 1000 + (IF has_audio THEN 128000 ELSE 0),
     AVERAGE_BANDWIDTH |-> variant.bitrate * 900 + (IF has_audio THEN 115200 ELSE 0),
     AUDIO |-> IF has_audio THEN "audio" ELSE "",
     SUBTITLES |-> IF has_subtitles THEN "subtitles" ELSE "",
     URI |-> variant.quality]

\* the "#EXT-X-MEDIA" entries of the audio tracks, in the order written
AudioEntries(tracks) ==
    [i \in DOMAIN tracks |-> GenerateAudioEntry(SortAudio(tracks)[i])]

\* the "#EXT-X-MEDIA" entries of the subtitle tracks, in the order written
SubtitleEntries(tracks) ==
    [i \in DOMAIN tracks |-> GenerateSubtitleEntry(SortSubtitles(tracks)[i])]

\* the audio tracks a caller may pass
AudioTrackInfos ==
    [name : {"a"}, language : {"eng", "spa"}, bitrate : {96, 128},
     is_default : BOOLEAN]

SubtitleTrackInfos ==
    [name : {"s"}, language : {"eng", "spa"}, is_default : BOOLEAN, forced : BOOLEAN]

VideoVariantInfos == [quality : {"1080p", "720p"}, bitrate : {3000, 5000}]

\* the arguments of one generate_master_playlist() call
PlaylistInit ==
    /\ video_variants \in SeqUpTo(VideoVariantInfos, 1)
                            \cup {<<[quality |-> "720p", bitrate |-> 3000],
                                    [quality |-> "1080p", bitrate |-> 5000]>>}
    /\ audio_tracks \in SeqUpTo(AudioTrackInfos, MaxTracks)
    /\ subtitle_tracks \in SeqUpTo(SubtitleTrackInfos, 1)
                             \cup {<<[name |-> "s", language |-> "spa",
                                      is_default |-> FALSE, forced |-> FALSE],
                                     [name |-> "s", language |-> "eng",
                                      is_default |-> FALSE, forced |-> TRUE]>>}
    /\ master_playlist = NoValue
    /\ playlist_error = "none"

\* generate_master_playlist(video_variants, audio_tracks, subtitle_tracks)
GenerateMasterPlaylist ==
    /\ master_playlist = NoValue
    /\ playlist_error = "none"
    /\ IF video_variants = <<>>
       THEN /\ playlist_error' = "ValueError"
            /\ UNCHANGED master_playlist
       ELSE /\ master_playlist' =
                 [audio |-> AudioEntries(audio_tracks),
                  subtitles |-> SubtitleEntries(subtitle_tracks),
                  variants |-> [i \in DOMAIN video_variants |->
                                  GenerateVariantEntry(SortVariants(video_variants)[i],
                                                       audio_tracks # <<>>,
                                                       subtitle_tracks # <<>>)]]
            /\ UNCHANGED playlist_error
    /\ UNCHANGED <<video_variants, audio_tracks, subtitle_tracks>>
    /\ UNCHANGED notPlaylistVars

NextPlaylist == GenerateMasterPlaylist

\* ==================================================================
\* Part 8: the transcode command (hls_transcoder/cli/main.py): the steps
\* of _transcode_async and the exit code of the process
\* ==================================================================
\* the exception handlers of transcode(): KeyboardInterrupt gives 130,
\* TranscoderError and any other Exception give 1
ExitCodeOf(exc) == IF exc = "KeyboardInterrupt" THEN 130 ELSE 1

\* the values of validation: the result is valid, is not valid, or
\* validate() raised and validation is None
ValidationValues == {"valid", "invalid", "none"}

CliInit ==
    /\ yes_flag \in BOOLEAN
    /\ cli_pc = "config"
    /\ exit_code = None
    /\ cli_end = "none"
    /\ cli_failed_tasks = 0
    /\ playlists = FALSE
    /\ validation = "none"

\* the exception leaves _transcode_async and a handler of transcode()
\* calls sys.exit()
CliRaises(exc) ==
    /\ cli_pc' = "exited"
    /\ exit_code' = ExitCodeOf(exc)
    /\ cli_end' = exc

\* step 1: the configuration is loaded and the profile looked up, or
\* ConfigurationError is raised
LoadConfig(ok) ==
    /\ cli_pc = "config"
    /\ IF ok THEN /\ cli_pc' = "detect"
                  /\ UNCHANGED <<exit_code, cli_end>>
       ELSE CliRaises("ConfigurationError")
    /\ UNCHANGED <<yes_flag, cli_failed_tasks, playlists, validation>>
    /\ UNCHANGED notCliVars

\* step 2: "await detector.detect(...)" returns or raises HardwareError
DetectHardware(ok) ==
    /\ cli_pc = "detect"
    /\ IF ok THEN /\ cli_pc' = "inspect"
                  /\ UNCHANGED <<exit_code, cli_end>>
       ELSE CliRaises("HardwareError")
    /\ UNCHANGED <<yes_flag, cli_failed_tasks, playlists, validation>>
    /\ UNCHANGED notCliVars

\* steps 3 and 4: "await inspector.inspect(input_file)" returns and the
\* plan is created, or one of them raises, which is raised on as
\* TranscoderError; with --yes the execution is started
InspectAndPlan(ok) ==
    /\ cli_pc = "inspect"
    /\ IF ok THEN /\ cli_pc' = IF yes_flag THEN "execute" ELSE "confirm"
                  /\ UNCHANGED <<exit_code, cli_end>>
       ELSE CliRaises("TranscoderError")
    /\ UNCHANGED <<yes_flag, cli_failed_tasks, playlists, validation>>
    /\ UNCHANGED notCliVars

\* the confirmation prompt is answered: on "no" _transcode_async returns
Confirm(proceed) ==
    /\ cli_pc = "confirm"
    /\ IF proceed THEN /\ cli_pc' = "execute"
                       /\ UNCHANGED <<exit_code, cli_end>>
       ELSE /\ cli_pc' = "exited"
            /\ exit_code' = 0
            /\ cli_end' = "declined"
    /\ UNCHANGED <<yes_flag, cli_failed_tasks, playlists, validation>>
    /\ UNCHANGED notCliVars

\* step 5: "await executor.execute_tasks(...)" returns a summary with
\* failed failed tasks, or raises, which is raised on as TranscoderError
RunExecutor(ok, failed) ==
    /\ cli_pc = "execute"
    /\ IF ok THEN /\ cli_pc' = "playlists"
                  /\ cli_failed_tasks' = failed
                  /\ UNCHANGED <<exit_code, cli_end>>
       ELSE /\ CliRaises("TranscoderError")
            /\ UNCHANGED cli_failed_tasks
    /\ UNCHANGED <<yes_flag, playlists, validation>>
    /\ UNCHANGED notCliVars

\* step 6: the playlists are generated; an exception is only printed
GeneratePlaylists(ok) ==
    /\ cli_pc = "playlists"
    /\ cli_pc' = "validate"
    /\ playlists' = ok
    /\ UNCHANGED <<yes_flag, exit_code, cli_end, cli_failed_tasks, validation>>
    /\ UNCHANGED notCliVars

\* step 7: the results are collected from the output files, which may
\* raise, and validated; an exception of validate() is only printed
ValidateOutput(ok, result) ==
    /\ cli_pc = "validate"
    /\ IF ok THEN /\ cli_pc' = "summary"
                  /\ validation' = result
                  /\ UNCHANGED <<exit_code, cli_end>>
       ELSE /\ CliRaises("OSError")
            /\ UNCHANGED validation
    /\ UNCHANGED <<yes_flag, cli_failed_tasks, playlists>>
    /\ UNCHANGED notCliVars

\* step 8: the summary and the final message are printed, _transcode_async
\* and asyncio.run() return and transcode() ends without sys.exit(),
\* whatever the summary and the validation were
DisplaySummary ==
    /\ cli_pc = "summary"
    /\ cli_pc' = "exited"
    /\ exit_code' = 0
    /\ cli_end' = "returned"
    /\ UNCHANGED <<yes_flag, cli_failed_tasks, playlists, validation>>
    /\ UNCHANGED notCliVars

\* the user interrupts the run while _transcode_async is suspended:
\* asyncio.run() cancels it and raises KeyboardInterrupt
Interrupt ==
    /\ cli_pc \in {"detect", "inspect", "execute"}
    /\ CliRaises("KeyboardInterrupt")
    /\ UNCHANGED <<yes_flag, cli_failed_tasks, playlists, validation>>
    /\ UNCHANGED notCliVars

NextCli ==
    \/ \E ok \in BOOLEAN : LoadConfig(ok)
    \/ \E ok \in BOOLEAN : DetectHardware(ok)
    \/ \E ok \in BOOLEAN : InspectAndPlan(ok)
    \/ \E proceed \in BOOLEAN : Confirm(proceed)
    \/ \E ok \in BOOLEAN, failed \in 0..MaxFailed : RunExecutor(ok, failed)
    \/ \E ok \in BOOLEAN : GeneratePlaylists(ok)
    \/ \E ok \in BOOLEAN, result \in ValidationValues : ValidateOutput(ok, result)
    \/ DisplaySummary
    \/ Interrupt

\* ==================================================================
\* Part 9: ExecutionPlanner.create_execution_strategy
\* (hls_transcoder/planner/strategy.py) and the executor of Part 1 built
\* with the strategy it returns, as the transcode command builds it
\* ==================================================================
\* ExecutionStrategy(...) with __post_init__: every concurrency and
\* max_total_concurrent is raised to at least 1
ExecutionStrategy(video, audio, subtitle, separate, max_total) ==
    [video_concurrency |-> Clamp(video),
     audio_concurrency |-> Clamp(audio),
     subtitle_concurrency |-> Clamp(subtitle),
     sprite_separate |-> separate,
     max_total_concurrent |-> Clamp(max_total)]

\* create_execution_strategy for a plan with the given numbers of tasks;
\* hw_limit is config.hardware.max_instances or, for software encoding,
\* max(1, cpu_count // 2)
CreateExecutionStrategy(video_count, audio_count, subtitle_count, has_sprite, hw_limit, max_concurrent) ==
    LET video_concurrency == Min(video_count, Min(hw_limit, max_concurrent))
        audio_remaining == max_concurrent - video_concurrency
        audio_concurrency == Min(audio_count, Max(1, audio_remaining \div 2))
        remaining == max_concurrent - video_concurrency - audio_concurrency
        subtitle_concurrency == Min(subtitle_count, Max(1, remaining))
        sprite_separate == has_sprite /\ (video_count + audio_count) > 2 IN
    ExecutionStrategy(video_concurrency, audio_concurrency, subtitle_concurrency,
                      sprite_separate, max_concurrent)

\* the strategies the planner makes for the tasks ts of a plan
PlannedStrategies(ts) ==
    LET count(c) == Cardinality({t \in ts : TaskType(t) = c}) IN
    {CreateExecutionStrategy(count("video"), count("audio"), count("subtitle"),
                             count("sprite") > 0, hw_limit, max_concurrent) :
        hw_limit \in 1..MaxInstances, max_concurrent \in 1..MaxParallelTasks}

\* an executor built for the tasks of a plan with the planner's strategy
StrategyInit ==
    /\ tasks \in TaskSets
    /\ strategy \in PlannedStrategies(tasks)
    /\ progress_callback \in BOOLEAN
    /\ status = [t \in tasks |-> PENDING]
    /\ pc = [t \in tasks |-> "created"]
    /\ semaphore = [c \in SemaphoreClasses |-> Capacity(c)]
    /\ results = <<>>
    /\ cancelled = FALSE
    /\ exec_pc = "idle"
    /\ summary = NoValue
    /\ in_callback = NoTask
    /\ worker = [t \in tasks |-> [calls |-> 0, outcome |-> "none"]]
    /\ permits = [t \in tasks |-> [acquired |-> 0, released |-> 0]]

\* ==================================================================
\* Specifications
\* ==================================================================
\* the executor not used
ExecIdle ==
    /\ strategy = [video_concurrency |-> 1, audio_concurrency |-> 1,
                   subtitle_concurrency |-> 1, sprite_separate |-> FALSE]
    /\ tasks = {}
    /\ progress_callback = FALSE
    /\ status = <<>>
    /\ pc = <<>>
    /\ semaphore = [c \in SemaphoreClasses |-> 1]
    /\ results = <<>>
    /\ cancelled = FALSE
    /\ exec_pc = "idle"
    /\ summary = NoValue
    /\ in_callback = NoTask
    /\ worker = <<>>
    /\ permits = <<>>

\* the recovery helper not used
RecIdle ==
    /\ config = [max_retries |-> 0, exponential_backoff |-> FALSE,
                 retry_delay |-> RetryDelay, backoff_multiplier |-> BackoffMultiplier,
                 max_retry_delay |-> MaxRetryDelayBound, timeout |-> FALSE,
                 cleanup_on_failure |-> FALSE, hardware_fallback_enabled |-> FALSE]
    /\ fallback_operation = FALSE
    /\ cleanup_func = FALSE
    /\ rec_pc = "idle"
    /\ attempt = 0
    /\ attempts = <<>>
    /\ calls = [operation |-> 0, fallback |-> 0, cleanup |-> 0, cancelled |-> 0]
    /\ outcomes = <<>>
    /\ delays = <<>>
    /\ recovery_result = NoValue

\* the subprocess driver not used
DrvIdle ==
    /\ timeout = None
    /\ driver_progress_callback = FALSE
    /\ process = "none"
    /\ returncode = None
    /\ signals = <<>>
    /\ run_pc = "unused"
    /\ raising = "none"
    /\ run_result = NoValue
    /\ term_pc = [c \in TerminateCallers |-> "unused"]
    /\ terminate_log = <<>>
    /\ duration = None
    /\ stderr_lines = 0
    /\ callbacks = <<>>

\* the hardware detector not used
DetIdle ==
    /\ ffmpeg_installed = FALSE
    /\ ffmpeg_encoders = {}
    /\ det_inputs = {}
    /\ cache = NoValue
    /\ det_pc = [c \in DetectCalls |-> "unused"]
    /\ det_args = [c \in DetectCalls |-> [prefer |-> "auto", test_encoding |-> FALSE]]
    /\ det_log = <<>>
    /\ detections = 0
    /\ clears = 0

\* the planner not used
PlanIdle ==
    /\ media_info = MediaInfo(<<>>, <<>>, <<>>)
    /\ hardware_info = NoValue
    /\ profile = <<>>
    /\ sprites_enabled = FALSE
    /\ video_qualities = <<>>
    /\ plan = NoValue

\* the sprite generator not used
SpriteIdle ==
    /\ sprite_config = [interval |-> 1, columns |-> 1, rows |-> 1]
    /\ sprite_duration = 0
    /\ sprite_pc = "unused"
    /\ temp_dir = Dir(FALSE, 0)
    /\ extractor_alive = FALSE
    /\ sprite_paths = <<>>
    /\ vtt_cues = <<>>
    /\ sprite_error = "none"

\* the playlist generator not used
PlaylistIdle ==
    /\ video_variants = <<>>
    /\ audio_tracks = <<>>
    /\ subtitle_tracks = <<>>
    /\ master_playlist = NoValue
    /\ playlist_error = "unused"

\* the CLI not used
CliIdle ==
    /\ yes_flag = FALSE
    /\ cli_pc = "unused"
    /\ exit_code = None
    /\ cli_end = "none"
    /\ cli_failed_tasks = 0
    /\ playlists = FALSE
    /\ validation = "none"

Init ==
    /\ ExecInit /\ RecIdle /\ DrvIdle /\ DetIdle
    /\ PlanIdle /\ SpriteIdle /\ PlaylistIdle /\ CliIdle
Spec == Init /\ [][Next]_vars

InitStrategy ==
    /\ StrategyInit /\ RecIdle /\ DrvIdle /\ DetIdle
    /\ PlanIdle /\ SpriteIdle /\ PlaylistIdle /\ CliIdle
SpecStrategy == InitStrategy /\ [][Next]_vars

InitRecovery ==
    /\ ExecIdle /\ RecInit /\ DrvIdle /\ DetIdle
    /\ PlanIdle /\ SpriteIdle /\ PlaylistIdle /\ CliIdle
SpecRecovery == InitRecovery /\ [][NextRecovery]_vars

InitDriver ==
    /\ ExecIdle /\ RecIdle /\ DrvInit /\ DetIdle
    /\ PlanIdle /\ SpriteIdle /\ PlaylistIdle /\ CliIdle
SpecDriver == InitDriver /\ [][NextDriver]_vars

InitDetector ==
    /\ ExecIdle /\ RecIdle /\ DrvIdle /\ DetInit
    /\ PlanIdle /\ SpriteIdle /\ PlaylistIdle /\ CliIdle
SpecDetector == InitDetector /\ [][NextDetector]_vars

InitSelection ==
    /\ ExecIdle /\ RecIdle /\ DrvIdle /\ SelInit
    /\ PlanIdle /\ SpriteIdle /\ PlaylistIdle /\ CliIdle
SpecSelection == InitSelection /\ [][NextDetector]_vars

InitLadder ==
    /\ ExecIdle /\ RecIdle /\ DrvIdle /\ DetIdle
    /\ LadderInit /\ SpriteIdle /\ PlaylistIdle /\ CliIdle
SpecLadder == InitLadder /\ [][NextPlanner]_vars

InitPlan ==
    /\ ExecIdle /\ RecIdle /\ DrvIdle /\ DetIdle
    /\ PlanInit /\ SpriteIdle /\ PlaylistIdle /\ CliIdle
SpecPlan == InitPlan /\ [][NextPlanner]_vars

InitSprite ==
    /\ ExecIdle /\ RecIdle /\ DrvIdle /\ DetIdle
    /\ PlanIdle /\ SpriteInit /\ PlaylistIdle /\ CliIdle
SpecSprite == InitSprite /\ [][NextSprite]_vars

InitPlaylist ==
    /\ ExecIdle /\ RecIdle /\ DrvIdle /\ DetIdle
    /\ PlanIdle /\ SpriteIdle /\ PlaylistInit /\ CliIdle
SpecPlaylist == InitPlaylist /\ [][NextPlaylist]_vars

InitCli ==
    /\ ExecIdle /\ RecIdle /\ DrvIdle /\ DetIdle
    /\ PlanIdle /\ SpriteIdle /\ PlaylistIdle /\ CliInit
SpecCli == InitCli /\ [][NextCli]_vars

\* ==================================================================
\* Properties of ParallelExecutor (specification Spec)
\* ==================================================================
Ended == exec_pc \in {"returned", "raised"}

TasksOfClass(c) == {t \in tasks : TaskType(t) = c}

\* the tasks of class c whose worker is running
WorkersRunning(c) == {t \in TasksOfClass(c) : pc[t] = "worker"}

HasResult(res, t, ok) == \E i \in 1..Len(res) : res[i].task = t /\ res[i].success = ok

ResultsOf(res, t) == {i \in 1..Len(res) : res[i].task = t}

\* the status a task ends with when it follows the outcome of its worker
StatusOfOutcome(t) == IF worker[t].outcome = "success" THEN COMPLETED ELSE FAILED

\* C1: at every instant the number of tasks of a semaphore class (video,
\* audio, subtitle) whose worker is running is at most the concurrency the
\* strategy gives that class.
C1_SemaphoreBound ==
    \A c \in SemaphoreClasses :
        /\ Cardinality(WorkersRunning(c)) <= Capacity(c)
        /\ Cardinality({t \in TasksOfClass(c) : status[t] = RUNNING}) <= Capacity(c)

\* a class is at its limit while another task of the class waits for a permit
C1_Witness ==
    \E c \in SemaphoreClasses :
        /\ Cardinality(WorkersRunning(c)) = Capacity(c)
        /\ \E t \in TasksOfClass(c) : pc[t] = "waiting"

\* C2: when a task's worker fails (and cancel() was not called), that task
\* ends FAILED with a failure result, and every other task has run its worker
\* and ends with the outcome of its own worker.
C2_PeersKeepOwnOutcome ==
    (Ended /\ ~cancelled) =>
        \A t \in tasks :
            worker[t].outcome = "error" =>
                /\ status[t] = FAILED
                /\ HasResult(results, t, FALSE)
                /\ \A u \in tasks \ {t} :
                      /\ worker[u].calls = 1
                      /\ status[u] = StatusOfOutcome(u)

\* C3: a task whose status is COMPLETED, FAILED or CANCELLED keeps that
\* status in every later state.
C3_TerminalIsFinal ==
    [][\A t \in tasks : status[t] \in Terminal => status'[t] = status[t]]_vars

\* C4: once the cancelled flag is set it stays set, a task that is still
\* PENDING never becomes RUNNING and its worker is never invoked, and when it
\* is dispatched it is marked CANCELLED.
C4_PendingAfterCancel ==
    [][cancelled =>
          /\ cancelled'
          /\ \A t \in tasks :
                status[t] = PENDING =>
                    /\ status'[t] \in {PENDING, CANCELLED}
                    /\ worker'[t].calls = 0
                    /\ pc'[t] = "done" => status'[t] = CANCELLED]_vars

\* a task was dispatched after cancel() while another is still pending
C4_Witness ==
    /\ cancelled
    /\ \E t \in tasks : status[t] = CANCELLED /\ worker[t].calls = 0 /\ pc[t] = "done"
    /\ \E t \in tasks : status[t] = COMPLETED

\* C5 as stated: every task marked CANCELLED on dispatch has a failure
\* ExecutionResult in the executor's results.
C5_CancelledResultRecorded ==
    \A t \in tasks : status[t] = CANCELLED => HasResult(results, t, FALSE)

\* C5 amended: a task marked CANCELLED on dispatch ends at once, without a
\* call of its worker, and no ExecutionResult of it is in the executor's
\* results or in the results of the returned summary (the failure result of
\* the cancelled branch is only the return value of _run_task, which
\* execute_tasks drops).
C5_CancelledResultReturnedOnly ==
    \A t \in tasks :
        status[t] = CANCELLED =>
            /\ pc[t] = "done"
            /\ worker[t].calls = 0
            /\ ResultsOf(results, t) = {}
            /\ summary # NoValue => ResultsOf(summary.results, t) = {}

\* execute_tasks has returned a summary of a run with a cancelled task and a
\* task that ran
C5_Witness ==
    /\ exec_pc = "returned"
    /\ summary # NoValue
    /\ \E t \in tasks : status[t] = CANCELLED
    /\ Len(summary.results) > 0

\* C6: every returned ExecutionSummary has completed_tasks + failed_tasks +
\* cancelled_tasks = total_tasks, with total_tasks the number of tasks
\* submitted.
C6_SummaryArithmetic ==
    summary # NoValue =>
        /\ summary.total_tasks = Cardinality(tasks)
        /\ summary.completed_tasks + summary.failed_tasks + summary.cancelled_tasks
              = summary.total_tasks

\* a summary with more results than tasks: a progress callback raised
C6_Witness ==
    /\ summary # NoValue
    /\ summary.completed_tasks > 0
    /\ summary.failed_tasks > 0
    /\ Len(summary.results) > summary.total_tasks

\* the coroutine of task t is between the call of its worker and its end
InFlight(t) == pc[t] \in {"worker", "callback_try", "callback_except"}

\* C7: a task that is RUNNING when cancel() is called is left as it is by
\* cancel(), stays RUNNING until its worker finishes, is never CANCELLED, and
\* ends COMPLETED when its worker succeeded and FAILED when it failed.  (No
\* task starts after cancel() and cancel() does not run during a callback, so
\* in a cancelled state the tasks in flight are those that were RUNNING at
\* the cancel() call.)
C7_RunningSurvivesCancel ==
    [][/\ cancelled' =>
            \A t \in tasks :
                (status[t] = RUNNING /\ pc'[t] = "worker") =>
                    status'[t] = RUNNING /\ worker'[t] = worker[t]
       /\ cancelled =>
            \A t \in tasks :
                InFlight(t) =>
                    /\ status'[t] # CANCELLED
                    /\ pc'[t] # "worker" => worker'[t].outcome # "none"
                    /\ pc'[t] = "done" =>
                          status'[t] = (IF worker'[t].outcome = "success"
                                        THEN COMPLETED ELSE FAILED)]_vars

\* C8: with sprite_separate the sprite task stays PENDING, and its worker
\* uninvoked, until every video, audio and subtitle task is in a terminal
\* state.
C8_SpriteAfterOthers ==
    strategy.sprite_separate =>
        \A s \in SpriteTasks :
            (status[s] # PENDING \/ worker[s].calls > 0 \/ pc[s] # "created") =>
                \A t \in tasks \ SpriteTasks : status[t] \in Terminal /\ pc[t] = "done"

\* the separate sprite task runs after at least two other tasks have ended
C8_Witness ==
    /\ strategy.sprite_separate
    /\ \E s \in SpriteTasks : status[s] = RUNNING
    /\ Cardinality(tasks \ SpriteTasks) >= 2

\* C8, second half: without sprite_separate the sprite task can be RUNNING
\* together with another task (a reachable state, not an invariant).
C8_SpriteConcurrent ==
    /\ ~strategy.sprite_separate
    /\ \E s \in SpriteTasks : status[s] = RUNNING
    /\ \E t \in tasks \ SpriteTasks : status[t] = RUNNING

\* C9: a video, audio or subtitle task takes exactly one permit of its class
\* before its worker starts, holds it while the worker runs and gives it back
\* when its coroutine ends, however it ends; the semaphore value is the
\* capacity less the permits held, and all semaphores are at capacity when
\* execute_tasks has ended.
C9_PermitDiscipline ==
    /\ \A t \in tasks :
          /\ permits[t].acquired <= 1
          /\ permits[t].released <= permits[t].acquired
          /\ ~UsesSemaphore(t) => permits[t].acquired = 0
          /\ UsesSemaphore(t) =>
                /\ worker[t].calls > 0 => permits[t].acquired = 1
                /\ pc[t] \in {"worker", "callback_try", "callback_except"} =>
                      permits[t].released = 0
                /\ pc[t] = "done" => permits[t].acquired = 1 /\ permits[t].released = 1
    /\ \A c \in SemaphoreClasses :
          /\ semaphore[c] = Capacity(c) - Cardinality({t \in TasksOfClass(c) :
                                permits[t].acquired - permits[t].released = 1})
          /\ Ended => semaphore[c] = Capacity(c)

\* execute_tasks has returned after a completed, a failed and a cancelled
\* task of the semaphore classes
C9_Witness ==
    /\ exec_pc = "returned"
    /\ \E t \in tasks : UsesSemaphore(t) /\ status[t] = COMPLETED
    /\ \E t \in tasks : UsesSemaphore(t) /\ status[t] = FAILED
    /\ \E t \in tasks : UsesSemaphore(t) /\ status[t] = CANCELLED

\* ==================================================================
\* Properties of execute_with_recovery (specification SpecRecovery)
\* ==================================================================
\* every invocation of the primary operation so far failed with an error
\* that is not a NonRetryableError (a timeout included)
AllRetryable ==
    \A i \in 1..Len(outcomes) : outcomes[i] \in {"retryable", "timeout"}

LoopOver == rec_pc \in {"fallback", "cleanup", "done"}

PrimaryAttempts == {i \in 1..Len(attempts) : attempts[i].strategy = RETRY}

C11_NonRetryableStops ==
    \A i \in 1..Len(outcomes) :
        outcomes[i] = "non_retryable" =>
            /\ i = Len(outcomes)
            /\ calls.operation = i
            /\ rec_pc \notin {"operation", "sleep"}
            /\ Len(delays) = i - 1

\* a call with retries left whose first invocation raised NonRetryableError
C11_Witness ==
    /\ rec_pc = "done"
    /\ config.max_retries >= 2
    /\ outcomes = <<"non_retryable">>
    /\ calls.operation = 1

PrimarySucceeded == \E i \in 1..Len(outcomes) : outcomes[i] = "success"

\* C12: the fallback operation is invoked at most once and only after the
\* retry loop; it has been invoked once when every retry of the primary
\* operation failed, a fallback was given and hardware_fallback_enabled is
\* true; it is never invoked when the fallback is disabled, when none was
\* given, or when an invocation of the primary operation succeeded.
C12_FallbackOnce ==
    /\ calls.fallback <= 1
    /\ calls.fallback = 1 => LoopOver
    /\ (LoopOver /\ AllRetryable /\ fallback_operation
           /\ config.hardware_fallback_enabled) => calls.fallback = 1
    /\ (~fallback_operation \/ ~config.hardware_fallback_enabled \/ PrimarySucceeded)
          => calls.fallback = 0

\* every one of at least two retries failed and the fallback was invoked
C12_Witness ==
    /\ rec_pc = "done"
    /\ AllRetryable
    /\ config.max_retries >= 2
    /\ calls.operation = config.max_retries
    /\ calls.fallback = 1

TimedOut == {i \in 1..Len(outcomes) : outcomes[i] = "timeout"}

C14_CleanupOnFinalFailure ==
    /\ calls.cleanup <= 1
    /\ calls.cleanup = 1 =>
          /\ rec_pc \in {"cleanup", "done"}
          /\ ~PrimarySucceeded
          /\ \A i \in 1..Len(attempts) : ~attempts[i].success
    /\ rec_pc = "done" =>
          calls.cleanup = IF /\ ~recovery_result.success
                             /\ cleanup_func
                             /\ config.cleanup_on_failure
                          THEN 1 ELSE 0

\* a call that failed after its retries and its fallback, and cleaned up
C14_Witness ==
    /\ rec_pc = "done"
    /\ ~recovery_result.success
    /\ config.max_retries >= 1
    /\ calls.fallback = 1
    /\ calls.cleanup = 1

\* C15: the result of a finished call is successful exactly when it
\* carries no error; a successful result names no strategy when the first
\* invocation of the primary operation succeeded, RETRY when a later one
\* did, and FALLBACK when the fallback operation did.
C15_StrategyUsed ==
    rec_pc = "done" =>
        /\ recovery_result.success <=> recovery_result.error = "none"
        /\ recovery_result.success =>
              recovery_result.strategy_used =
                  IF calls.fallback = 1 THEN FALLBACK
                  ELSE IF Len(outcomes) = 1 THEN NoStrategy
                  ELSE RETRY

\* a call whose primary operation succeeded at the second invocation or later
C15_Witness ==
    /\ rec_pc = "done"
    /\ recovery_result.success
    /\ Len(outcomes) >= 2
    /\ calls.fallback = 0
    /\ recovery_result.strategy_used = RETRY

\* ==================================================================
\* Properties of AsyncFFmpegProcess (specification SpecDriver)
\* ==================================================================
Sent(sig) == \E i \in 1..Len(signals) : signals[i] = sig

\* C16: while run() handles the timeout it has sent SIGTERM to the child;
\* run() fails with ProcessTimeoutError only for a timeout that was set and
\* that elapsed, only once the child has exited, and the error carries that
\* timeout; after the timeout elapsed run() ends in no other way, unless
\* its caller cancels it.
C16_TimeoutTerminates ==
    /\ (run_pc = "except" /\ raising = "TimeoutError") => Sent(SIGTERM)
    /\ (run_pc = "done" /\ run_result.kind = "ProcessTimeoutError") =>
          /\ raising = "TimeoutError"
          /\ Truthy(timeout)
          /\ run_result.timeout = timeout
          /\ returncode # None
    /\ (run_pc = "done" /\ raising = "TimeoutError") =>
          run_result.kind \in {"ProcessTimeoutError", "CancelledError"}

\* run() failed with the timeout error after its own terminate() made the
\* child exit on SIGTERM
C16_Witness ==
    /\ run_pc = "done"
    /\ run_result.kind = "ProcessTimeoutError"
    /\ run_result.timeout = MaxTimeoutBound
    /\ terminate_log = <<>>
    /\ signals = <<SIGTERM>>
    /\ returncode = -15

SigkillAfterSigterm(sig) ==
    \A i \in 1..Len(sig) : sig[i] = SIGKILL => \E j \in 1..(i - 1) : sig[j] = SIGTERM

\* C17: a signal is sent only to a running child; a terminate() call sends
\* SIGTERM when it starts and then waits; it sends SIGKILL only from that
\* wait, with the child still running; no SIGKILL precedes the first
\* SIGTERM; and a terminate() call that found the child running returns
\* only with the child exited (run() being cancelled aside, which ends its
\* terminate() call without a return).
C17_GracefulThenForceful ==
    [][ /\ SigkillAfterSigterm(signals')
        /\ signals' # signals =>
              /\ process = "started" /\ returncode = None
              /\ \E c \in TerminateCallers :
                    \/ /\ term_pc[c] = "idle" /\ term_pc'[c] = "term_wait"
                       /\ signals' = Append(signals, SIGTERM)
                    \/ /\ term_pc[c] = "term_wait" /\ term_pc'[c] = "kill_wait"
                       /\ signals' = Append(signals, SIGKILL)
        /\ \A c \in TerminateCallers :
              (term_pc[c] # "idle" /\ term_pc'[c] = "idle") =>
                  \/ returncode' # None
                  \/ c = "run" /\ run_result'.kind = "CancelledError"
      ]_vars

\* a terminate() of a caller on a running child that did not exit on
\* SIGTERM: SIGKILL was sent, the child died of it, the call returned
C17_Witness ==
    /\ terminate_log = <<"running">>
    /\ signals = <<SIGTERM, SIGKILL>>
    /\ returncode = -9
    /\ term_pc["caller"] = "idle"
    /\ run_pc = "done"

\* C18: no signal is sent when there is no child or the child has exited,
\* by no terminate() call and by nothing else; a terminate() call of a
\* caller made in such a state returns at once and changes nothing of the
\* child or of run().
C18_TerminateIsSafe ==
    [][ /\ ChildState # "running" => signals' = signals
        /\ (terminate_log' # terminate_log /\ ChildState # "running") =>
              /\ terminate_log' = Append(terminate_log, ChildState)
              /\ UNCHANGED <<term_pc, process, returncode, run_pc, run_result, raising>>
      ]_vars

\* terminate() was called before the child was started and again after it
\* had exited, and no signal was ever sent
C18_Witness ==
    /\ terminate_log = <<"none", "exited">>
    /\ signals = <<>>
    /\ term_pc["caller"] = "idle"

\* C19: progress_callback is called at most once per stderr line; a call
\* of it that raises leaves run() reading stderr, appends the line like any
\* other, sends no signal and starts no terminate(); and run() never fails
\* with the callback's exception: it returns when the child exited with
\* code 0, fails with FFmpegError on another code, with ProcessTimeoutError
\* after the timeout elapsed, with the spawn error when no child was
\* started, or is cancelled by its caller.
C19_CallbackExceptionSwallowed ==
    [][ /\ \A i \in 1..Len(callbacks') :
              /\ callbacks'[i].line <= stderr_lines'
              /\ \A j \in 1..(i - 1) : callbacks'[j].line < callbacks'[i].line
        /\ (Len(callbacks') > Len(callbacks) /\ callbacks'[Len(callbacks')].raised) =>
              /\ run_pc = "communicate" /\ run_pc' = "communicate"
              /\ stderr_lines' = stderr_lines + 1
              /\ UNCHANGED <<signals, term_pc, process, returncode, run_result, raising>>
        /\ (run_pc # "done" /\ run_pc' = "done") =>
              \/ /\ run_result'.kind = "returned"
                 /\ returncode' = 0 /\ raising' = "none"
              \/ /\ run_result'.kind = "FFmpegError"
                 /\ returncode' \notin {None, 0} /\ raising' = "FFmpegError"
              \/ /\ run_result'.kind = "ProcessTimeoutError"
                 /\ raising' = "TimeoutError"
              \/ /\ run_result'.kind = "OSError"
                 /\ process' = "none"
              \/ run_result'.kind = "CancelledError"
      ]_vars

\* run() returned although the callback raised on a line, having called
\* the callback again on a later line
C19_Witness ==
    /\ run_pc = "done"
    /\ run_result.kind = "returned"
    /\ Len(callbacks) = 2
    /\ callbacks[1].raised
    /\ ~callbacks[2].raised
    /\ signals = <<>>

\* ==================================================================
\* Properties of HardwareDetector (specification SpecDetector)
\* ==================================================================
\* the events of det_log at which a detect() call returned a HardwareInfo
Returns == {j \in 1..Len(det_log) : det_log[j].event = "return"}

\* the event at which the call that ended at event j had started
StartOf(j) ==
    CHOOSE i \in 1..j : det_log[i].event = "start" /\ det_log[i].call = det_log[j].call

ClearedBetween(a, b) == \E x \in a..b : det_log[x].event = "clear"

\* C20: a detect() call that starts after a detect() call has returned a
\* HardwareInfo, with no clear_cache() from that return to its own, returns
\* that same object and runs no detection; the first detect() call that
\* starts after a clear_cache() runs a detection and returns a new object.
C20_Memoized ==
    /\ \A k \in Returns, j \in Returns :
          (k < StartOf(j) /\ ~ClearedBetween(k, j)) =>
              det_log[j].info = det_log[k].info /\ ~det_log[j].fresh
    /\ \A j \in Returns, x \in 1..Len(det_log) :
          ( /\ x < StartOf(j)
            /\ det_log[x].event = "clear"
            /\ \A y \in (x + 1)..(StartOf(j) - 1) : det_log[y].event # "start" )
          => det_log[j].fresh

\* ==================================================================
\* Properties of the detection result (specification SpecSelection)
\* ==================================================================
\* the family of a catalog encoder
FamilyOf(n) == CHOOSE t \in HardwareTypes : n \in NamesOf(t)

\* the preference of the detect() call that created the cached HardwareInfo
PreferOfCached ==
    {det_args[det_log[j].call].prefer :
        j \in {i \in DOMAIN det_log : /\ det_log[i].event = "return"
                                      /\ det_log[i].fresh
                                      /\ det_log[i].info = cache.id}}

\* C21: every HardwareInfo detect() returns has an available software
\* encoder, and detect() returns none when ffmpeg lists no software encoder.
C21_SoftwareAlwaysAvailable ==
    /\ cache # NoValue => cache.available \cap NamesOf(SOFTWARE) # {}
    /\ ffmpeg_encoders \cap NamesOf(SOFTWARE) = {}
         => \A j \in DOMAIN det_log : det_log[j].event # "return"

\* the families that have an encoder available in the name set avail
FamiliesOf(avail) == {t \in HardwareTypes : NamesOf(t) \cap avail # {}}

\* the family the selection rule names for preference p and availability
\* avail, some family being available
RuleFamily(avail, p) ==
    IF p \in FamiliesOf(avail) THEN p
    ELSE Priority[CHOOSE k \in 1..Len(Priority) :
                      /\ Priority[k] \in FamiliesOf(avail)
                      /\ \A l \in 1..(k - 1) : Priority[l] \notin FamiliesOf(avail)]

\* C22: the selected encoder of a returned HardwareInfo belongs to the
\* preferred family when that family has an encoder available in the
\* HardwareInfo, and otherwise to the first family of NVIDIA, APPLE, INTEL,
\* AMD, VAAPI, SOFTWARE that has one.
C22_SelectionRule ==
    (cache # NoValue /\ cache.available # {})
        => \A p \in PreferOfCached :
              /\ cache.selected_encoder # NoEncoder
              /\ FamilyOf(cache.selected_encoder) = RuleFamily(cache.available, p)

\* ==================================================================
\* Properties of the quality ladder (specification SpecLadder)
\* ==================================================================
\* the height of the source video
SourceHeight == media_info.video_streams[1].height

\* the labels of the profile that name a preset higher than the source
Upscaling == {i \in DOMAIN profile : /\ profile[i] \in DOMAIN QUALITY_PRESETS
                                      /\ QUALITY_PRESETS[profile[i]].height > SourceHeight}

\* C23: no variant of the quality ladder, and no video task made from it,
\* is higher than the source video.
C23_NoUpscaling ==
    plan # NoValue =>
        /\ \A i \in DOMAIN video_qualities : video_qualities[i].height <= SourceHeight
        /\ \A i \in DOMAIN plan.video_tasks : plan.video_tasks[i].height <= SourceHeight

\* a ladder was built from a profile that names a preset higher than the
\* source and one that is not
C23_Witness ==
    /\ plan # NoValue
    /\ media_info.video_streams # <<>>
    /\ video_qualities # <<>>
    /\ video_qualities[1].name # "original"
    /\ Upscaling # {}

\* C24: every variant of the quality ladder, the original variant
\* included, has an even width and an even height.
C24_EvenDimensions ==
    \A i \in DOMAIN video_qualities :
        /\ WidthOf(video_qualities[i]) % 2 = 0
        /\ video_qualities[i].height % 2 = 0

\* C25: the quality ladder is sorted by height strictly descending.
C25_StrictlyDescending ==
    \A i \in DOMAIN video_qualities :
        i > 1 => video_qualities[i].height < video_qualities[i - 1].height

\* ==================================================================
\* Properties of the task plan (specification SpecPlan)
\* ==================================================================
\* C28: any two tasks of one plan have different output directories and
\* write no file in common, whatever the streams of the source are.
C28_DisjointOutputs ==
    plan # NoValue =>
        \A i, j \in DOMAIN AllTasks(plan) :
            i # j => /\ AllTasks(plan)[i].output_dir # AllTasks(plan)[j].output_dir
                     /\ OutputFiles(AllTasks(plan)[i]) \cap OutputFiles(AllTasks(plan)[j]) = {}

Thumbnails ==
    CHOOSE n \in 1..(MaxDuration + 1) :
        /\ n * sprite_config.interval >= sprite_duration
        /\ n > 1 => (n - 1) * sprite_config.interval < sprite_duration

\* the tiles of one sheet
Tiles == sprite_config.columns * sprite_config.rows

\* C30: the VTT file has one cue for each thumbnail k, and cue k names
\* the sheet with index k div (columns * rows), which is one of the
\* sheets produced and below ceil(thumbnails / (columns * rows)); a
\* generate() that made all its sheets writes the VTT file and returns.
C30_CueOnProducedSheet ==
    /\ vtt_cues # <<>> =>
         /\ Len(vtt_cues) = Thumbnails
         /\ \A k \in 0..(Thumbnails - 1) :
               /\ (k \div Tiles) + 1 \in DOMAIN sprite_paths
               /\ (k \div Tiles) * Tiles < Thumbnails
               /\ vtt_cues[k + 1].sprite_name = sprite_paths[(k \div Tiles) + 1]
               /\ vtt_cues[k + 1].sprite_name
                     = SpritePath(k \div Tiles, Len(sprite_paths))
         /\ \A i \in DOMAIN sprite_paths : (i - 1) * Tiles < Thumbnails
    /\ sprite_pc = "returned" => vtt_cues # <<>>
    /\ sprite_error # "vtt"

\* generate() returned with two sheets or more, the last cue on a sheet
\* after the first
C30_Witness ==
    /\ sprite_pc = "returned"
    /\ vtt_cues # <<>>
    /\ Len(sprite_paths) >= 2
    /\ vtt_cues[Len(vtt_cues)].sprite_name # sprite_paths[1]

\* ==================================================================
\* Properties of the master playlist (specification SpecPlaylist)
\* ==================================================================
\* C27: when the master playlist has audio entries, exactly one of them
\* has DEFAULT=YES, and it is the first one.
C27_OneDefaultFirst ==
    (master_playlist # NoValue /\ master_playlist.audio # <<>>) =>
        {i \in DOMAIN master_playlist.audio : master_playlist.audio[i].DEFAULT = "YES"} = {1}

\* ==================================================================
\* Properties of the transcode command (specification SpecCli)
\* ==================================================================
\* C29: the exit code of a run the user did not decline is 0 only when no
\* task failed and the validation passed, it is 1 when an exception ended
\* the run, and 130 when the user interrupted it.
C29_ExitCodes ==
    cli_pc = "exited" =>
        /\ (exit_code = 0 /\ cli_end # "declined")
              => (cli_failed_tasks = 0 /\ validation = "valid")
        /\ cli_end \notin {"returned", "declined", "KeyboardInterrupt"} => exit_code = 1
        /\ cli_end = "KeyboardInterrupt" => exit_code = 130

\* ==================================================================
\* Properties of the progress callback and of the summary (specification
\* Spec)
\* ==================================================================
\* the executor-level progress callback is being called for task t
CallbackRunsFor(t) == pc[t] \in {"callback_try", "callback_except"} /\ in_callback = t

\* C31: while the executor-level progress callback runs for a video, audio or
\* subtitle task, that task has given its class-semaphore permit back.
C31_CallbackAfterRelease ==
    \A t \in tasks :
        (UsesSemaphore(t) /\ CallbackRunsFor(t)) =>
            permits[t].released = permits[t].acquired

\* C32: a task whose worker succeeded and whose coroutine has ended is
\* COMPLETED and has a success result and no failure result, whether or not
\* the progress callback called for it raised.
C32_CallbackLeavesOutcome ==
    \A t \in tasks :
        (worker[t].outcome = "success" /\ pc[t] = "done") =>
            /\ status[t] = COMPLETED
            /\ HasResult(results, t, TRUE)
            /\ ~HasResult(results, t, FALSE)

\* C33: the results of a returned summary hold at most one result per task,
\* and exactly one for every task that ended COMPLETED or FAILED, with
\* success = true exactly for the COMPLETED ones.
C33_OneResultPerTask ==
    summary # NoValue =>
        \A t \in tasks :
            /\ Cardinality(ResultsOf(summary.results, t)) <= 1
            /\ status[t] \in {COMPLETED, FAILED} =>
                  /\ Cardinality(ResultsOf(summary.results, t)) = 1
                  /\ HasResult(summary.results, t, status[t] = COMPLETED)

\* the number of submitted tasks whose status is st
CountStatus(st) == Cardinality({t \in tasks : status[t] = st})

\* C34: in every returned summary cancelled_tasks is not negative and is the
\* number of submitted tasks that ended CANCELLED, and completed_tasks and
\* failed_tasks are the numbers of tasks that ended COMPLETED and FAILED.
C34_CountsMatchStatus ==
    summary # NoValue =>
        /\ summary.cancelled_tasks >= 0
        /\ summary.cancelled_tasks = CountStatus(CANCELLED)
        /\ summary.completed_tasks = CountStatus(COMPLETED)
        /\ summary.failed_tasks = CountStatus(FAILED)

\* C35: a started execute_tasks ends by returning, never by raising, and
\* when it has ended no submitted task is PENDING or RUNNING, with or
\* without a cancel() during the run.  (That a started run ends at all is
\* the liveness half of the claim; this is the half a finite run refutes.)
C35_ReturnsWithAllTerminal ==
    Ended =>
        /\ exec_pc = "returned"
        /\ \A t \in tasks : status[t] \in Terminal

\* ==================================================================
\* Properties of an executor with the planner's strategy (specification
\* SpecStrategy)
\* ==================================================================
\* the tasks running at the same time, of all four kinds
RunningTasks == {t \in tasks : status[t] = RUNNING}

\* C36: the number of tasks running at the same time, over video, audio,
\* subtitle and sprite tasks together, is at most
\* strategy.max_total_concurrent.
C36_TotalBound == Cardinality(RunningTasks) <= strategy.max_total_concurrent

\* ==================================================================
\* Properties of a stopped run() (specification SpecDriver)
\* ==================================================================
\* C37: whenever run() has stopped, by returning, by raising or by being
\* cancelled, no child process is left running.
C37_NoChildLeftRunning == run_pc = "done" => ChildState # "running"

\* ==================================================================
\* Properties of the HardwareInfo a detect() call returns (specification
\* SpecDetector)
\* ==================================================================
\* the HardwareInfo info is one a detection with the arguments a can
\* create on this machine: its detected type, available and tested
\* encoders and selection are those of a.prefer and a.test_encoding for
\* some set of failed probes
ReflectsArguments(info, a) ==
    \E failed \in SUBSET Probed(ffmpeg_encoders) :
        info = HardwareInfo(info.id, ffmpeg_encoders, a.prefer, a.test_encoding, failed)

\* call c returns a HardwareInfo in this step; the object returned is the
\* one in the cache after the step
ReturnsInfo(c) ==
    /\ det_pc[c] # "done"
    /\ det_pc'[c] = "done"
    /\ Len(det_log') > Len(det_log)
    /\ det_log'[Len(det_log')].event = "return"

\* C38: the HardwareInfo a detect(prefer, test_encoding) call returns
\* reflects the arguments of that call, also when an earlier call with
\* other arguments has returned.
C38_ReflectsArguments ==
    [][\A c \in DetectCalls :
          ReturnsInfo(c) => ReflectsArguments(cache', det_args'[c])]_vars

\* C39: the detected_type of every HardwareInfo detect() has returned names
\* a family with at least one encoder available in that same HardwareInfo,
\* also after probe tests have marked encoders unavailable.
C39_DetectedTypeAvailable ==
    cache # NoValue => NamesOf(cache.detected_type) \cap cache.available # {}

\* ==================================================================
\* Properties of the fallback of execute_with_recovery (specification
\* SpecRecovery)
\* ==================================================================
\* the primary operation has raised a NonRetryableError
PrimaryNonRetryable == \E i \in 1..Len(outcomes) : outcomes[i] = "non_retryable"

\* C40: after the primary operation has raised a NonRetryableError the
\* fallback operation is not invoked, and the call ends in failure.
C40_NoFallbackAfterNonRetryable ==
    PrimaryNonRetryable =>
        /\ calls.fallback = 0
        /\ rec_pc = "done" => ~recovery_result.success
====
